---- MODULE Spec2Model ----
(***************************************************************************)
(* Seat-reservation core of the course registration load tester            *)
(* (load_test_simulator.py): the shared seat ledger course_slots, the      *)
(* single lock, the per-request admission decision and the per-student     *)
(* registration session, and the driver run_concurrent_load_test that runs  *)
(* one session per student on a pool of max_workers threads and collects   *)
(* the sessions' records.  MainSpec is the whole program main: the         *)
(* construction that loads the data file, the run, and export_results.     *)
(*                                                                         *)
(* Random draws are nondeterministic choices.  random.random() is          *)
(* represented in thousandths for the error draw and in hundredths for     *)
(* the waitlist draw.  In Spec the simulated latencies are not             *)
(* represented: the latency sample lists are represented by their lengths  *)
(* in counters.  MetricsSpec gives the aggregation explicit sample lists.  *)
(***************************************************************************)
EXTENDS Integers, Sequences, FiniteSets, TLC

(* ----------------------------- bounds ---------------------------------- *)
\* largest student roster
NumStudents == 2
\* number of error outcomes (5xx or 4xx) the random source draws in one run
MaxErrors == 1
\* number of cache misses the random source draws in one run
MaxCacheMisses == 1
\* number of retries the random source draws in one run
MaxRetryDraws == 3

(* ------------------------- program constants --------------------------- *)
min_courses_per_student == 3
max_courses_per_student == 6
max_retries == 3
\* thresholds of error_chance, in thousandths
Threshold5xx == 2
Threshold4xx == 47
\* threshold of the waitlist draw, in hundredths
WaitlistPercent == 70

NoHolder == 0
\* max_workers of run_concurrent_load_test when the caller gives none
default_max_workers == 100
\* a catalog entry without the "schedule" key
MissingSchedule == "<missing>"

(* ------------------------------ inputs --------------------------------- *)
\* error_chance draws around the two thresholds
ErrorChances == {1, 2, 46, 47}
\* waitlist draws around the threshold
WaitlistDraws == {69, 70}

Course(slots, days, time, pop) ==
  [total_slots |-> slots, days |-> days, time |-> time, popularity_score |-> pop]

\* one course with one seat
SingleCatalog == << Course(1, "MWF", "09:00", 1) >>

\* two courses that do not conflict, one seat and two seats
ContendedCatalog ==
  << Course(1, "MWF", "09:00", 2), Course(2, "TTh", "09:00", 1) >>

\* five one-seat courses, the first two at the same days and time
WideCatalog ==
  << Course(1, "MWF", "09:00", 1), Course(1, "MWF", "09:00", 5),
     Course(1, "TTh", "09:00", 3), Course(1, "MWF", "10:00", 2),
     Course(1, "TTh", "10:00", 4) >>

\* four two-seat courses, the first two at the same days and time
AmpleCatalog ==
  << Course(2, "MWF", "09:00", 4), Course(2, "MWF", "09:00", 3),
     Course(2, "TTh", "09:00", 2), Course(2, "MWF", "10:00", 1) >>

\* three one-seat courses, the first two at the same days and time
ClashCatalog ==
  << Course(1, "MWF", "09:00", 1), Course(1, "MWF", "09:00", 2),
     Course(1, "TTh", "09:00", 3) >>

\* two one-seat courses, the second one without a schedule
BrokenCatalog ==
  << Course(1, "MWF", "09:00", 2), Course(1, MissingSchedule, MissingSchedule, 1) >>

\* three one-seat courses without a conflict
UniformCatalog ==
  << Course(1, "MWF", "09:00", 3), Course(1, "TTh", "09:00", 2),
     Course(1, "MWF", "10:00", 1) >>

\* what the random source may draw in one run: the targets, and how many
\* errors, cache misses and retries
Draws(targets, errors, misses, retries) ==
  [targets |-> targets, errors |-> errors, misses |-> misses, retries |-> retries]

AllTargets == min_courses_per_student..max_courses_per_student

\* the runs explored: a catalog, a roster size and the random source
Scenarios ==
  { [catalog |-> SingleCatalog, roster |-> n, max_workers |-> default_max_workers,
     draws |-> Draws({min_courses_per_student}, MaxErrors, MaxCacheMisses,
                     MaxRetryDraws)] : n \in 1..NumStudents }
    \cup { [catalog |-> ContendedCatalog, roster |-> n,
            max_workers |-> default_max_workers,
            draws |-> Draws({min_courses_per_student}, MaxErrors, 0, 0)]
            : n \in 2..NumStudents }
    \cup { [catalog |-> WideCatalog, roster |-> 1,
            max_workers |-> default_max_workers,
            draws |-> Draws(AllTargets, MaxErrors, 0, 0)] }
    \cup { [catalog |-> SingleCatalog, roster |-> NumStudents + 1,
            max_workers |-> default_max_workers,
            draws |-> Draws({min_courses_per_student}, 0, 0, 0)] }
    \cup { [catalog |-> AmpleCatalog, roster |-> 1,
            max_workers |-> default_max_workers,
            draws |-> Draws(AllTargets, MaxErrors, 0, 0)] }
    \cup { [catalog |-> ClashCatalog, roster |-> 1,
            max_workers |-> default_max_workers,
            draws |-> Draws({min_courses_per_student}, 0, 0, 0)] }
    \* more students than workers
    \cup { [catalog |-> SingleCatalog, roster |-> NumStudents,
            max_workers |-> NumStudents - 1,
            draws |-> Draws({min_courses_per_student}, 0, 0, 0)] }
    \* more demand than seats in every course
    \cup { [catalog |-> UniformCatalog, roster |-> 2,
            max_workers |-> default_max_workers,
            draws |-> Draws({min_courses_per_student}, 0, 0, 0)] }
    \* a catalog entry that makes sessions fault
    \cup { [catalog |-> BrokenCatalog, roster |-> 2,
            max_workers |-> default_max_workers,
            draws |-> Draws({min_courses_per_student}, 0, 0, 0)] }

VARIABLES
  courses,                \* self.courses: the catalog, course_id = index
  students,               \* self.students: the set of student ids
  course_slots,           \* self.course_slots: course_id -> remaining seats
  hot_sections,           \* self.hot_sections
  lock,                   \* self.lock: its holder, NoHolder when free
  counters,               \* the shared counters and sample-list lengths
  rand,                   \* the random source: the draws it has left
  sess,                   \* per student: the locals of its session
  max_workers,            \* the size of the thread pool
  main_pc,                \* where run_concurrent_load_test is
  registrations,          \* self.registrations
  processed,              \* the students whose future the driver has taken
  peak_concurrent_users,  \* self.peak_concurrent_users
  in_flight_peak,         \* history: most sessions executing at one time
  sample_times,           \* self.request_times, atomic_op_times, db_txn_times
  test_results,           \* self.test_results
  waitlist_arrivals,      \* history: the Waitlisted decisions, in their order
  data_file,              \* whether the data file can be loaded
  exported_files,         \* the files export_results has written
  reset,                  \* reset tool: where main and run_complete_reset are
  postgres,               \* reset tool: the database and the open transaction
  redis_store             \* reset tool: the Redis cache keys and queues

\* the state of reset_registration_database.py
resetVars == << reset, postgres, redis_store >>

metricVars == << sample_times, test_results, data_file, exported_files,
                 resetVars >>

driverVars == << max_workers, main_pc, registrations, processed,
                 peak_concurrent_users >>

vars == << courses, students, course_slots, hot_sections, lock, counters, rand,
          sess, max_workers, main_pc, registrations, processed,
          peak_concurrent_users, in_flight_peak, sample_times, test_results,
          waitlist_arrivals, data_file, exported_files, resetVars >>

CourseIds == 1..Len(courses)

Statuses == {"Enrolled", "Waitlisted", "Failed", "Error_4xx", "Error_5xx"}

Max(a, b) == IF a >= b THEN a ELSE b
Min(a, b) == IF a <= b THEN a ELSE b

(* ------------------------- __init__ helpers ---------------------------- *)
\* top hot_count courses by popularity_score, descending, stable
HotSections(cat) ==
  LET K == Len(cat)
      hot_count == Max(1, K \div 10)
      rank(c) == 1 + Cardinality({ d \in 1..K :
                        \/ cat[d].popularity_score > cat[c].popularity_score
                        \/ /\ cat[d].popularity_score = cat[c].popularity_score
                           /\ d < c })
  IN { c \in 1..K : rank(c) <= hot_count }

\* the ledger starts at every course's total_slots
InitCourseSlots(cat) == [c \in 1..Len(cat) |-> cat[c].total_slots]

\* self.test_results before any calculation: zeros and no course
NoResults ==
  [ legacy |-> [ students_processed |-> 0, registration_attempts |-> 0,
                 successful_registrations |-> 0, failed_registrations |-> 0,
                 waitlisted_registrations |-> 0, students_with_min_courses |-> 0,
                 course_utilization |-> << >> ],
    latency |-> [ p50_ms |-> 0, p95_ms |-> 0, p99_ms |-> 0,
                  atomic_p95_ms |-> 0, db_p95_ms |-> 0 ],
    rates |-> [ retry_count |-> 0, successful_retries |-> 0,
                cache_hit_count |-> 0, cache_miss_count |-> 0,
                error_5xx_count |-> 0, error_4xx_count |-> 0 ],
    peak_concurrent_users |-> 0 ]

\* the three latency sample lists, empty
NoSamples == [ request_times |-> << >>, atomic_op_times |-> << >>,
              db_txn_times |-> << >> ]

InitCounters ==
  [ successful_registrations |-> 0, failed_registrations |-> 0,
    waitlisted_registrations |-> 0,
    cache_hit_count |-> 0, cache_miss_count |-> 0,
    error_5xx_count |-> 0, error_4xx_count |-> 0,
    retry_count |-> 0, successful_retries |-> 0,
    request_times |-> 0, atomic_op_times |-> 0, db_txn_times |-> 0,
    hot_section_ops |-> 0 ]

\* the reset tool is a program of its own: it is not run
ResetNotRun ==
  /\ reset = [ pc |-> "not_run" ]
  /\ postgres = [ committed |-> << >> ]
  /\ redis_store = [ cache_keys |-> 0 ]

\* locals of a session that has not started
InitSession ==
  [ pc |-> "start", target_courses |-> 0, available_courses |-> << >>,
    idx |-> 1, registered_courses |-> 0, student_registrations |-> << >>,
    cache_hit |-> TRUE, retry_count |-> 0, needs_retry |-> FALSE,
    tmp |-> 0, available_slots |-> 0, error_chance |-> 0 ]

Init ==
  \E sc \in Scenarios :
    /\ courses = sc.catalog
    /\ students = 1..sc.roster
    /\ course_slots = InitCourseSlots(sc.catalog)
    /\ hot_sections = HotSections(sc.catalog)
    /\ lock = NoHolder
    /\ counters = InitCounters
    /\ rand = sc.draws
    /\ sess = [s \in 1..sc.roster |-> InitSession]
    /\ max_workers = sc.max_workers
    /\ main_pc = "submit"
    /\ registrations = << >>
    /\ processed = {}
    /\ peak_concurrent_users = 0
    /\ in_flight_peak = 0
    /\ sample_times = NoSamples
    /\ test_results = NoResults
    /\ waitlist_arrivals = << >>
    /\ data_file = "loadable"
    /\ exported_files = {}
    /\ ResetNotRun

(* ------------------------------ helpers -------------------------------- *)
\* variant: the selection is made with replacement
SamplesWithReplacement(K, k) == [1..k -> 1..K]

\* random.sample(population 1..K, k): the ordered selections without replacement
Samples(K, k) ==
  { q \in [1..k -> 1..K] : \A i, j \in 1..k : i # j => q[i] # q[j] }

\* the candidate the session's loop is at
CurrentCourse(s) == sess[s].available_courses[sess[s].idx]

\* the schedule check raises KeyError: at the first Enrolled record that
\* does not already give a conflict, the record's course or the candidate
\* has no schedule
ConflictCheckRaises(regs, course_id) ==
  \E i \in 1..Len(regs) :
    /\ regs[i].status = "Enrolled"
    /\ \/ courses[regs[i].course_id].days = MissingSchedule
       \/ courses[course_id].days = MissingSchedule
    /\ \A j \in 1..(i - 1) :
         regs[j].status = "Enrolled" =>
           ~ ( /\ courses[regs[j].course_id].days = courses[course_id].days
               /\ courses[regs[j].course_id].time = courses[course_id].time )

\* variant: only the latest record is checked
HasConflictLastOnly(regs, course_id) ==
  /\ regs # << >>
  /\ regs[Len(regs)].status = "Enrolled"
  /\ courses[regs[Len(regs)].course_id].days = courses[course_id].days
  /\ courses[regs[Len(regs)].course_id].time = courses[course_id].time

\* the schedule check against the student's Enrolled records
HasConflict(regs, course_id) ==
  \E i \in 1..Len(regs) :
    /\ regs[i].status = "Enrolled"
    /\ courses[regs[i].course_id].days = courses[course_id].days
    /\ courses[regs[i].course_id].time = courses[course_id].time

\* variant: the target test is strict
LoopDoneStrict(loc) ==
  \/ loc.idx > Len(loc.available_courses)
  \/ loc.registered_courses > loc.target_courses

\* variant: the loop stops one enrolment short of the target
LoopDoneEarly(loc) ==
  \/ loc.idx > Len(loc.available_courses)
  \/ loc.registered_courses >= loc.target_courses - 1

\* the loop is over: candidates exhausted or target reached
LoopDone(loc) ==
  \/ loc.idx > Len(loc.available_courses)
  \/ loc.registered_courses >= loc.target_courses

\* variant: the lock excludes nobody
CanAcquireAlways(holder) == TRUE

\* with self.lock: the lock can be taken only when nobody holds it
CanAcquire(holder) == holder = NoHolder

\* variant: the lock stays with its holder
ReleaseKeeps(holder) == holder

\* leaving the with self.lock block releases the lock
Release(holder) == NoHolder

\* variant: a course with no seat left still admits
DecideStatusOffByOne(error_chance, available_slots, waitlist_draw) ==
  IF error_chance < Threshold5xx THEN "Error_5xx"
  ELSE IF error_chance < Threshold4xx THEN "Error_4xx"
  ELSE IF available_slots >= 0 THEN "Enrolled"
  ELSE IF available_slots = 0 /\ waitlist_draw < WaitlistPercent THEN "Waitlisted"
  ELSE "Failed"

\* variant: the seat test comes before the error draws
DecideStatusSeatsFirst(error_chance, available_slots, waitlist_draw) ==
  IF available_slots > 0 THEN "Enrolled"
  ELSE IF error_chance < Threshold5xx THEN "Error_5xx"
  ELSE IF error_chance < Threshold4xx THEN "Error_4xx"
  ELSE IF available_slots = 0 /\ waitlist_draw < WaitlistPercent THEN "Waitlisted"
  ELSE "Failed"

\* variant: the two error kinds are reported under one status
DecideStatusGenericError(error_chance, available_slots, waitlist_draw) ==
  IF error_chance < Threshold4xx THEN "Error"
  ELSE IF available_slots > 0 THEN "Enrolled"
  ELSE IF available_slots = 0 /\ waitlist_draw < WaitlistPercent THEN "Waitlisted"
  ELSE "Failed"

\* the ordered first-match decision
DecideStatus(error_chance, available_slots, waitlist_draw) ==
  IF error_chance < Threshold5xx THEN "Error_5xx"
  ELSE IF error_chance < Threshold4xx THEN "Error_4xx"
  ELSE IF available_slots > 0 THEN "Enrolled"
  ELSE IF available_slots = 0 /\ waitlist_draw < WaitlistPercent THEN "Waitlisted"
  ELSE "Failed"

(* ------------------- student_registration_session ---------------------- *)
\* the sessions a pool thread is executing
Running == { s \in students : sess[s].pc \notin {"start", "done", "raised"} }

\* variant: one session more than the pool has threads
WorkerFreeInclusive(running, workers) == running <= workers

\* ThreadPoolExecutor(max_workers): a thread is free to take the next session
WorkerFree(running, workers) == running < workers

\* a pool thread takes the session from the queue, in submission order,
\* and the session draws its target and its candidates
StartSession(s) ==
  /\ sess[s].pc = "start"
  /\ main_pc # "submit"
  /\ \A t \in students : t < s => sess[t].pc # "start"
  /\ WorkerFree(Cardinality(Running), max_workers)
  /\ in_flight_peak' = Max(in_flight_peak, Cardinality(Running) + 1)
  /\ UNCHANGED << waitlist_arrivals, metricVars, driverVars >>
  /\ \E target \in rand.targets :
       \E sample \in Samples(Len(courses), Min(target * 2, Len(courses))) :
         sess' = [sess EXCEPT ![s] = [@ EXCEPT !.pc = "loop",
                                                !.target_courses = target,
                                                !.available_courses = sample]]
  /\ UNCHANGED << courses, students, course_slots, hot_sections, lock, counters, rand >>

SessionReturn(s) ==
  /\ sess[s].pc = "loop"
  /\ LoopDone(sess[s])
  /\ sess' = [sess EXCEPT ![s] = [@ EXCEPT !.pc = "done"]]
  /\ UNCHANGED << waitlist_arrivals, metricVars, driverVars, in_flight_peak, courses, students, course_slots, hot_sections, lock, counters, rand >>

\* variant: a skipped candidate is counted as a failed registration
SkipConflictCounted(s) ==
  /\ sess[s].pc = "loop"
  /\ ~LoopDone(sess[s])
  /\ HasConflict(sess[s].student_registrations, CurrentCourse(s))
  /\ sess' = [sess EXCEPT ![s] = [@ EXCEPT !.idx = @ + 1]]
  /\ counters' = [counters EXCEPT !.failed_registrations = @ + 1]
  /\ UNCHANGED << waitlist_arrivals, metricVars, driverVars, in_flight_peak, courses, students, course_slots, hot_sections, lock, rand >>

\* the schedule check raises out of the session
SessionRaise(s) ==
  /\ sess[s].pc = "loop"
  /\ ~LoopDone(sess[s])
  /\ ConflictCheckRaises(sess[s].student_registrations, CurrentCourse(s))
  /\ sess' = [sess EXCEPT ![s] = [@ EXCEPT !.pc = "raised"]]
  /\ UNCHANGED << waitlist_arrivals, metricVars, driverVars, in_flight_peak, courses, students, course_slots, hot_sections, lock, counters, rand >>

SkipConflict(s) ==
  /\ sess[s].pc = "loop"
  /\ ~LoopDone(sess[s])
  /\ ~ConflictCheckRaises(sess[s].student_registrations, CurrentCourse(s))
  /\ HasConflict(sess[s].student_registrations, CurrentCourse(s))
  /\ sess' = [sess EXCEPT ![s] = [@ EXCEPT !.idx = @ + 1]]
  /\ UNCHANGED << waitlist_arrivals, metricVars, driverVars, in_flight_peak, courses, students, course_slots, hot_sections, lock, counters, rand >>

(* -------------------- simulate_registration_request -------------------- *)
BeginRequest(s) ==
  /\ sess[s].pc = "loop"
  /\ ~LoopDone(sess[s])
  /\ ~ConflictCheckRaises(sess[s].student_registrations, CurrentCourse(s))
  /\ ~HasConflict(sess[s].student_registrations, CurrentCourse(s))
  /\ \E hit \in BOOLEAN :
       /\ ~hit => rand.misses > 0
       /\ rand' = [rand EXCEPT !.misses = IF hit THEN @ ELSE @ - 1]
       /\ sess' = [sess EXCEPT ![s] = [@ EXCEPT !.pc = "cache", !.cache_hit = hit]]
  /\ UNCHANGED << waitlist_arrivals, metricVars, driverVars, in_flight_peak, courses, students, course_slots, hot_sections, lock, counters >>

CacheAcquire(s) ==
  /\ sess[s].pc = "cache"
  /\ CanAcquire(lock)
  /\ lock' = s
  /\ sess' = [sess EXCEPT ![s] = [@ EXCEPT !.pc = "cache_cs"]]
  /\ UNCHANGED << waitlist_arrivals, metricVars, driverVars, in_flight_peak, courses, students, course_slots, hot_sections, counters, rand >>

CacheCount(s) ==
  /\ sess[s].pc = "cache_cs"
  /\ lock' = Release(lock)
  /\ \E needs \in BOOLEAN :
       /\ needs => rand.retries > 0
       /\ rand' = [rand EXCEPT !.retries = IF needs THEN @ - 1 ELSE @]
       /\ counters' =
            [counters EXCEPT
               !.cache_hit_count = IF sess[s].cache_hit THEN @ + 1 ELSE @,
               !.cache_miss_count = IF sess[s].cache_hit THEN @ ELSE @ + 1,
               !.atomic_op_times = @ + 1,
               !.hot_section_ops =
                  IF CurrentCourse(s) \in hot_sections THEN @ + 1 ELSE @]
       /\ sess' = [sess EXCEPT ![s] =
                     [@ EXCEPT !.pc = IF needs THEN "retry_rd" ELSE "db",
                               !.needs_retry = needs,
                               !.retry_count = 0]]
  /\ UNCHANGED << waitlist_arrivals, metricVars, driverVars, in_flight_peak, courses, students, course_slots, hot_sections >>

\* while needs_retry and retry_count < max_retries: the local count and the
\* read half of self.retry_count += 1, which runs without the lock
RetryRead(s) ==
  /\ sess[s].pc = "retry_rd"
  /\ sess' = [sess EXCEPT ![s] = [@ EXCEPT !.pc = "retry_wr",
                                            !.retry_count = @ + 1,
                                            !.tmp = counters.retry_count]]
  /\ UNCHANGED << waitlist_arrivals, metricVars, driverVars, in_flight_peak, courses, students, course_slots, hot_sections, lock, counters, rand >>

\* variant: the retry bound is inclusive
AfterRetryInclusive(retry_count, needs) ==
  IF needs /\ retry_count <= max_retries THEN "retry_rd"
  ELSE IF retry_count > 0 /\ ~needs THEN "succ_rd"
  ELSE "db"

\* where the request goes after a redraw of needs_retry
AfterRetry(retry_count, needs) ==
  IF needs /\ retry_count < max_retries THEN "retry_rd"
  ELSE IF retry_count > 0 /\ ~needs THEN "succ_rd"
  ELSE "db"

\* the write half of self.retry_count += 1, the delay and the redraw
RetryWrite(s) ==
  /\ sess[s].pc = "retry_wr"
  /\ counters' = [counters EXCEPT !.retry_count = sess[s].tmp + 1]
  /\ \E needs \in BOOLEAN :
       /\ (needs /\ sess[s].retry_count < max_retries) => rand.retries > 0
       /\ rand' = [rand EXCEPT !.retries =
                     IF needs /\ sess[s].retry_count < max_retries THEN @ - 1 ELSE @]
       /\ sess' = [sess EXCEPT ![s] =
                     [@ EXCEPT !.pc = AfterRetry(sess[s].retry_count, needs),
                               !.needs_retry = needs,
                               !.tmp = 0]]
  /\ UNCHANGED << waitlist_arrivals, metricVars, driverVars, in_flight_peak, courses, students, course_slots, hot_sections, lock >>

\* if retry_count > 0 and not needs_retry: read half of successful_retries += 1
SuccessRead(s) ==
  /\ sess[s].pc = "succ_rd"
  /\ sess' = [sess EXCEPT ![s] = [@ EXCEPT !.pc = "succ_wr",
                                            !.tmp = counters.successful_retries]]
  /\ UNCHANGED << waitlist_arrivals, metricVars, driverVars, in_flight_peak, courses, students, course_slots, hot_sections, lock, counters, rand >>

SuccessWrite(s) ==
  /\ sess[s].pc = "succ_wr"
  /\ counters' = [counters EXCEPT !.successful_retries = sess[s].tmp + 1]
  /\ sess' = [sess EXCEPT ![s] = [@ EXCEPT !.pc = "db", !.tmp = 0]]
  /\ UNCHANGED << waitlist_arrivals, metricVars, driverVars, in_flight_peak, courses, students, course_slots, hot_sections, lock, rand >>

\* with self.lock: the read of the course's remaining seats and the error draw
DbAcquire(s) ==
  /\ sess[s].pc = "db"
  /\ CanAcquire(lock)
  /\ lock' = s
  /\ \E error_chance \in ErrorChances :
       /\ error_chance < Threshold4xx => rand.errors > 0
       /\ rand' = [rand EXCEPT !.errors =
                     IF error_chance < Threshold4xx THEN @ - 1 ELSE @]
       /\ sess' = [sess EXCEPT ![s] =
                     [@ EXCEPT !.pc = "db_cs",
                               !.available_slots = course_slots[CurrentCourse(s)],
                               !.error_chance = error_chance]]
  /\ UNCHANGED << waitlist_arrivals, metricVars, driverVars, in_flight_peak, courses, students, course_slots, hot_sections, counters >>

\* the registration record the request returns
Registration(s, status) ==
  [ student_id |-> s, course_id |-> CurrentCourse(s), status |-> status,
    cache_hit |-> sess[s].cache_hit, retry_count |-> sess[s].retry_count,
    is_hot_section |-> CurrentCourse(s) \in hot_sections ]

\* variant: the seat is not taken
ReserveSeatNoop(slots, course_id, status) == slots

\* variant: a rejected request takes a seat too
ReserveSeatOnError(slots, course_id, status) ==
  IF status \in {"Enrolled", "Error_4xx"}
  THEN [slots EXCEPT ![course_id] = @ - 1] ELSE slots

\* variant: the seat is given back instead of taken
ReserveSeatIncrement(slots, course_id, status) ==
  IF status = "Enrolled" THEN [slots EXCEPT ![course_id] = @ + 1] ELSE slots

\* the ledger after a decision: only Enrolled takes a seat
ReserveSeat(slots, course_id, status) ==
  IF status = "Enrolled" THEN [slots EXCEPT ![course_id] = @ - 1] ELSE slots

CountOutcome(cnt, status) ==
  [cnt EXCEPT
     !.error_5xx_count = IF status = "Error_5xx" THEN @ + 1 ELSE @,
     !.error_4xx_count = IF status = "Error_4xx" THEN @ + 1 ELSE @,
     !.successful_registrations = IF status = "Enrolled" THEN @ + 1 ELSE @,
     !.waitlisted_registrations = IF status = "Waitlisted" THEN @ + 1 ELSE @,
     !.failed_registrations = IF status = "Failed" THEN @ + 1 ELSE @,
     !.db_txn_times = @ + 1,
     !.request_times = @ + 1]

\* the decision, the release of the lock, the record returned to the session
\* and the session's bookkeeping for it
DbDecide(s) ==
  /\ sess[s].pc = "db_cs"
  /\ \E waitlist_draw \in WaitlistDraws :
       LET status == DecideStatus(sess[s].error_chance, sess[s].available_slots,
                                  waitlist_draw)
       IN /\ course_slots' = ReserveSeat(course_slots, CurrentCourse(s), status)
          /\ counters' = CountOutcome(counters, status)
          /\ sess' = [sess EXCEPT ![s] =
                        [@ EXCEPT !.pc = "loop",
                                  !.student_registrations =
                                     Append(@, Registration(s, status)),
                                  !.registered_courses =
                                     IF status = "Enrolled" THEN @ + 1 ELSE @,
                                  !.idx = @ + 1,
                                  !.cache_hit = TRUE, !.retry_count = 0,
                                  !.needs_retry = FALSE,
                                  !.available_slots = 0, !.error_chance = 0]]
          /\ waitlist_arrivals' =
               IF status = "Waitlisted"
               THEN Append(waitlist_arrivals, << s, CurrentCourse(s) >>)
               ELSE waitlist_arrivals
  /\ lock' = Release(lock)
  /\ UNCHANGED << metricVars, driverVars, in_flight_peak, courses, students, hot_sections, rand >>

(* ---------------------- run_concurrent_load_test ----------------------- *)
sessionVars == << courses, students, course_slots, hot_sections, lock, counters,
                  rand, sess, in_flight_peak, waitlist_arrivals >>

\* every student's session is submitted to the pool and the number of
\* futures is taken as the peak of concurrent users
SubmitAll ==
  /\ main_pc = "submit"
  /\ main_pc' = "collect"
  /\ peak_concurrent_users' = Max(peak_concurrent_users, Cardinality(students))
  /\ UNCHANGED << max_workers, registrations, processed >>
  /\ UNCHANGED << sessionVars, metricVars >>

\* as_completed yields a session that returned: its records are collected
Collect(s) ==
  /\ main_pc = "collect"
  /\ s \notin processed
  /\ sess[s].pc = "done"
  /\ registrations' = registrations \o sess[s].student_registrations
  /\ processed' = processed \cup {s}
  /\ UNCHANGED << max_workers, main_pc, peak_concurrent_users >>
  /\ UNCHANGED << sessionVars, metricVars >>

\* variant: the fault of a session leaves the collecting loop
CollectFaultAborts(s) ==
  /\ main_pc = "collect"
  /\ s \notin processed
  /\ sess[s].pc = "raised"
  /\ main_pc' = "aborted"
  /\ UNCHANGED << max_workers, registrations, processed, peak_concurrent_users >>
  /\ UNCHANGED << sessionVars, metricVars >>

\* as_completed yields a session that raised: the fault is printed and the
\* loop goes on
CollectFault(s) ==
  /\ main_pc = "collect"
  /\ s \notin processed
  /\ sess[s].pc = "raised"
  /\ processed' = processed \cup {s}
  /\ UNCHANGED << max_workers, main_pc, registrations, peak_concurrent_users >>
  /\ UNCHANGED << sessionVars, metricVars >>

(* ----------- calculate_slo_metrics, calculate_test_results ------------- *)
\* the ratios of the percentile lookups, in hundredths
P95Percent == 95
P99Percent == 99

\* the result of a list lookup outside the list (no sample is negative)
IndexError == -1

\* x put into an ascending list
Insert(x, sorted) ==
  LET k == Cardinality({ i \in 1..Len(sorted) : sorted[i] <= x })
  IN SubSeq(sorted, 1, k) \o << x >> \o SubSeq(sorted, k + 1, Len(sorted))

RECURSIVE Sorted(_)
\* variant: the samples are used in the order they were appended
SortedAsAppended(list) == list

\* sorted(list): ascending
Sorted(list) ==
  IF list = << >> THEN << >>
  ELSE Insert(list[Len(list)], Sorted(SubSeq(list, 1, Len(list) - 1)))

\* variant: the index is rounded up
PercentileIndexCeiling(n, percent) == (n * percent + 99) \div 100

\* int(len(list) * ratio), counted from 0
PercentileIndex(n, percent) == (n * percent) \div 100

\* list[index] with the index counted from 0
Lookup(list, index) ==
  IF index + 1 \in 1..Len(list) THEN list[index + 1] ELSE IndexError

\* sorted_x[int(len(sorted_x) * ratio)] if the list is not empty, else 0
Percentile(list, percent) ==
  IF list = << >> THEN 0
  ELSE Lookup(Sorted(list), PercentileIndex(Len(list), percent))

\* statistics.median of an ascending non-empty list: the middle element, or
\* the mean of the two middle elements (exact here: the samples are even)
Median(sorted) ==
  LET n == Len(sorted)
  IN IF n % 2 = 1 THEN sorted[n \div 2 + 1]
     ELSE (sorted[n \div 2] + sorted[n \div 2 + 1]) \div 2

\* len([r for r in registrations if r["status"] == status])
CountStatus(regs, status) == Len(SelectSeq(regs, LAMBDA r : r.status = status))

\* calculate_test_results: the counts per outcome, the students that reached
\* the minimum, and per course the number enrolled
CalculateTestResults(regs) ==
  LET enrolled_of(s) ==
        Len(SelectSeq(regs, LAMBDA r : r.student_id = s /\ r.status = "Enrolled"))
  IN [ students_processed |-> Cardinality(students),
       registration_attempts |-> Len(regs),
       successful_registrations |-> CountStatus(regs, "Enrolled"),
       failed_registrations |-> CountStatus(regs, "Failed"),
       waitlisted_registrations |-> CountStatus(regs, "Waitlisted"),
       students_with_min_courses |->
         Cardinality({ s \in students : enrolled_of(s) >= min_courses_per_student }),
       course_utilization |->
         [ c \in CourseIds |->
             Len(SelectSeq(regs, LAMBDA r : r.course_id = c /\ r.status = "Enrolled")) ] ]

\* the latency part of calculate_slo_metrics
LatencyMetrics(times) ==
  [ p50_ms |-> IF times.request_times = << >> THEN 0
               ELSE Median(Sorted(times.request_times)),
    p95_ms |-> Percentile(times.request_times, P95Percent),
    p99_ms |-> Percentile(times.request_times, P99Percent),
    atomic_p95_ms |-> Percentile(times.atomic_op_times, P95Percent),
    db_p95_ms |-> Percentile(times.db_txn_times, P95Percent) ]

\* the counters that calculate_slo_metrics divides by the number of records
\* (or by the cache total) to report the rates
RateCounts(cnt) ==
  [ retry_count |-> cnt.retry_count,
    successful_retries |-> cnt.successful_retries,
    cache_hit_count |-> cnt.cache_hit_count,
    cache_miss_count |-> cnt.cache_miss_count,
    error_5xx_count |-> cnt.error_5xx_count,
    error_4xx_count |-> cnt.error_4xx_count ]

\* calculate_slo_metrics, which ends by calling calculate_test_results
SloMetrics(regs, times, cnt, peak) ==
  [ legacy |-> CalculateTestResults(regs),
    latency |-> LatencyMetrics(times),
    rates |-> RateCounts(cnt),
    peak_concurrent_users |-> peak ]

CalculateSloMetrics ==
  SloMetrics(registrations, sample_times, counters, peak_concurrent_users)

\* every future has been taken: the pool is left and the metrics are
\* calculated
FinishRun ==
  /\ main_pc = "collect"
  /\ processed = students
  /\ main_pc' = "finished"
  /\ UNCHANGED << max_workers, registrations, processed, peak_concurrent_users >>
  /\ test_results' = CalculateSloMetrics
  /\ UNCHANGED << sessionVars, sample_times, data_file, exported_files, resetVars >>

\* calculate_slo_metrics called once more on the finished run
CalculateAgain ==
  /\ main_pc = "finished"
  /\ test_results' = CalculateSloMetrics
  /\ UNCHANGED << driverVars, sessionVars, sample_times, data_file, exported_files, resetVars >>

Next ==
  \/ SubmitAll
  \/ FinishRun
  \/ \E s \in students :
       \/ StartSession(s)
       \/ SessionReturn(s)
       \/ SessionRaise(s)
       \/ SkipConflict(s)
       \/ BeginRequest(s)
       \/ CacheAcquire(s)
       \/ CacheCount(s)
       \/ RetryRead(s)
       \/ RetryWrite(s)
       \/ SuccessRead(s)
       \/ SuccessWrite(s)
       \/ DbAcquire(s)
       \/ DbDecide(s)
       \/ Collect(s)
       \/ CollectFault(s)

Spec == Init /\ [][Next]_vars

\* the threads are scheduled fairly: a step that stays possible is taken
FairSpec == Spec /\ WF_vars(Next)


(* ------------------------------- main ---------------------------------- *)
\* the files export_results writes before it generates the report
DataFiles ==
  { "load_test_results.json", "slo_metrics.json",
    "load_test_registrations.json", "performance_timeline.json" }

ReportFile == "load_test_report.txt"

\* the data files main is run on: one session with every kind of draw, a
\* session that skips a conflict, sessions that fault, no student, no course
MainScenarios ==
  { [catalog |-> SingleCatalog, roster |-> 1, max_workers |-> default_max_workers,
     draws |-> Draws({min_courses_per_student}, MaxErrors, MaxCacheMisses,
                     MaxRetryDraws)],
    [catalog |-> ClashCatalog, roster |-> 1, max_workers |-> default_max_workers,
     draws |-> Draws({min_courses_per_student}, 0, 0, 0)],
    [catalog |-> BrokenCatalog, roster |-> 2, max_workers |-> default_max_workers,
     draws |-> Draws({min_courses_per_student}, 0, 0, 0)],
    [catalog |-> SingleCatalog, roster |-> 0, max_workers |-> default_max_workers,
     draws |-> Draws({min_courses_per_student}, 0, 0, 0)],
    [catalog |-> << >>, roster |-> 1, max_workers |-> default_max_workers,
     draws |-> Draws({min_courses_per_student}, 0, 0, 0)] }

\* before RegistrationLoadTester() is constructed
MainInit ==
  /\ data_file \in {"loadable", "missing", "unreadable"}
  /\ main_pc = "construct"
  /\ courses = << >>
  /\ students = {}
  /\ course_slots = << >>
  /\ hot_sections = {}
  /\ lock = NoHolder
  /\ counters = InitCounters
  /\ rand = Draws({min_courses_per_student}, 0, 0, 0)
  /\ sess = << >>
  /\ max_workers = default_max_workers
  /\ registrations = << >>
  /\ processed = {}
  /\ peak_concurrent_users = 0
  /\ in_flight_peak = 0
  /\ sample_times = NoSamples
  /\ test_results = NoResults
  /\ waitlist_arrivals = << >>
  /\ exported_files = {}
  /\ ResetNotRun

\* __init__ with a data file that loads: the catalog and the roster are
\* taken from it and the ledger is set up
Construct ==
  /\ main_pc = "construct"
  /\ data_file = "loadable"
  /\ \E sc \in MainScenarios :
       /\ courses' = sc.catalog
       /\ students' = 1..sc.roster
       /\ course_slots' = InitCourseSlots(sc.catalog)
       /\ hot_sections' = HotSections(sc.catalog)
       /\ rand' = sc.draws
       /\ sess' = [s \in 1..sc.roster |-> InitSession]
       /\ max_workers' = sc.max_workers
  /\ main_pc' = "submit"
  /\ UNCHANGED << lock, counters, registrations, processed, peak_concurrent_users,
                  in_flight_peak, waitlist_arrivals, metricVars >>

\* variant: the failure to load is swallowed and the run goes on without data
LoadFailsSwallowed ==
  /\ main_pc = "construct"
  /\ data_file # "loadable"
  /\ main_pc' = "submit"
  /\ UNCHANGED << max_workers, registrations, processed, peak_concurrent_users >>
  /\ UNCHANGED << sessionVars, metricVars >>

\* load_test_data raises out of __init__: main reports a missing file and
\* returns, and lets any other failure propagate
LoadFails ==
  /\ main_pc = "construct"
  /\ data_file # "loadable"
  /\ main_pc' = IF data_file = "missing" THEN "not_found" ELSE "load_error"
  /\ UNCHANGED << max_workers, registrations, processed, peak_concurrent_users >>
  /\ UNCHANGED << sessionVars, metricVars >>

\* generate_load_test_report divides by the number of students and by the
\* number of registration attempts
ReportRaises(results) ==
  \/ Cardinality(students) = 0
  \/ results.legacy.registration_attempts = 0
  \/ results.legacy.students_processed = 0

\* export_results: the data files are written, then the report is generated
\* and written; an exception of the report leaves main
ExportResults ==
  /\ main_pc = "finished"
  /\ IF ReportRaises(test_results)
     THEN /\ exported_files' = DataFiles
          /\ main_pc' = "export_raised"
     ELSE /\ exported_files' = DataFiles \cup {ReportFile}
          /\ main_pc' = "exported"
  /\ UNCHANGED << max_workers, registrations, processed, peak_concurrent_users >>
  /\ UNCHANGED << sessionVars, sample_times, test_results, data_file, resetVars >>

MainNext == Construct \/ LoadFails \/ Next \/ ExportResults

MainSpec == MainInit /\ [][MainNext]_vars


(* -------------------- the aggregation on its own ----------------------- *)
\* bounds of the aggregation's inputs
MaxRecords == 3
MaxSamples == 4

\* simulated latencies in ms; even, so that the mean of two is exact
Latencies == {10, 20, 30}

\* list lengths around the first length at which a percentile index is not
\* the last index
LongLengths == {20, 21, 100, 101}

\* three two-seat courses without a conflict
MetricsCatalog ==
  << Course(2, "MWF", "09:00", 3), Course(2, "TTh", "09:00", 2),
     Course(2, "MWF", "10:00", 1) >>

MetricsRoster == 1..2

\* the records of requests for distinct (student, course) pairs, in any
\* order of collection
RecordLists ==
  UNION { { q \in [1..n -> [ student_id : MetricsRoster,
                            course_id : 1..Len(MetricsCatalog),
                            status : Statuses,
                            cache_hit : {TRUE}, retry_count : {0},
                            is_hot_section : {FALSE} ]] :
              \A i, j \in 1..n :
                i # j => \/ q[i].student_id # q[j].student_id
                         \/ q[i].course_id # q[j].course_id }
          : n \in 0..MaxRecords }

Reverse(list) == [ i \in 1..Len(list) |-> list[Len(list) + 1 - i] ]

Rotate(list) ==
  IF list = << >> THEN << >> ELSE Tail(list) \o << Head(list) >>

\* a long list that is not sorted and has repeated values
PatternList(n) == [ i \in 1..n |-> 10 * (1 + ((7 * i) % 3)) ]

\* the sample lists of n requests
SampleLists ==
  { [ request_times |-> q, atomic_op_times |-> Reverse(q),
      db_txn_times |-> Rotate(q) ]
      : q \in UNION { [1..n -> Latencies] : n \in 0..MaxSamples }
                \cup { PatternList(n) : n \in LongLengths } }

\* the counters after the requests of the records regs
CountersOf(regs) ==
  [ InitCounters EXCEPT
      !.successful_registrations = CountStatus(regs, "Enrolled"),
      !.failed_registrations = CountStatus(regs, "Failed"),
      !.waitlisted_registrations = CountStatus(regs, "Waitlisted"),
      !.error_5xx_count = CountStatus(regs, "Error_5xx"),
      !.error_4xx_count = CountStatus(regs, "Error_4xx"),
      !.cache_hit_count = Len(regs),
      !.request_times = Len(regs), !.atomic_op_times = Len(regs),
      !.db_txn_times = Len(regs) ]

\* the state in which every session has returned and has been collected
Collected(cat, roster, regs, times) ==
  /\ courses = cat
  /\ students = roster
  /\ course_slots =
       [ c \in 1..Len(cat) |->
           cat[c].total_slots
             - Len(SelectSeq(regs, LAMBDA r : r.course_id = c /\ r.status = "Enrolled")) ]
  /\ hot_sections = HotSections(cat)
  /\ lock = NoHolder
  /\ counters = CountersOf(regs)
  /\ rand = Draws({min_courses_per_student}, 0, 0, 0)
  /\ sess = [ s \in roster |->
                [ InitSession EXCEPT
                    !.pc = "done",
                    !.target_courses = min_courses_per_student,
                    !.student_registrations =
                       SelectSeq(regs, LAMBDA r : r.student_id = s) ] ]
  /\ max_workers = default_max_workers
  /\ main_pc = "collect"
  /\ registrations = regs
  /\ processed = roster
  /\ peak_concurrent_users = Cardinality(roster)
  /\ in_flight_peak = 1
  /\ sample_times = times
  /\ test_results = NoResults
  /\ waitlist_arrivals =
       [ i \in 1..CountStatus(regs, "Waitlisted") |->
           LET r == SelectSeq(regs, LAMBDA x : x.status = "Waitlisted")[i]
           IN << r.student_id, r.course_id >> ]
  /\ data_file = "loadable"
  /\ exported_files = {}
  /\ ResetNotRun

\* a DB transaction time of a request by its outcome: an error answers
\* fastest, an enrolment takes longest
StatusLatency(status) ==
  IF status \in {"Error_4xx", "Error_5xx"} THEN 10
  ELSE IF status = "Enrolled" THEN 30 ELSE 20

\* n students that each made one request for the only course
QueueRecords(n) ==
  [ i \in 1..n |-> [ student_id |-> i, course_id |-> 1,
                     status |-> IF i = 1 THEN "Enrolled" ELSE "Failed",
                     cache_hit |-> TRUE, retry_count |-> 0,
                     is_hot_section |-> TRUE ] ]

\* every collected run the aggregation is given: any records with one
\* sample per record, or any samples of one-request sessions
MetricsInit ==
  \/ \E regs \in RecordLists :
       Collected(MetricsCatalog, MetricsRoster, regs,
                 [ request_times |-> [ i \in 1..Len(regs) |-> 10 + StatusLatency(regs[i].status) ],
                   atomic_op_times |-> [ i \in 1..Len(regs) |-> 10 ],
                   db_txn_times |-> [ i \in 1..Len(regs) |-> StatusLatency(regs[i].status) ] ])
  \/ \E times \in SampleLists :
       Collected(SingleCatalog, 1..Len(times.request_times),
                 QueueRecords(Len(times.request_times)), times)

MetricsNext == FinishRun \/ CalculateAgain

MetricsSpec == MetricsInit /\ [][MetricsNext]_vars


(* ======================= properties of the core ======================== *)
\* every attempt made so far: (student, position in its session's list)
Attempts ==
  UNION { { << s, i >> : i \in 1..Len(sess[s].student_registrations) } : s \in students }

Rec(a) == sess[a[1]].student_registrations[a[2]]

WithStatus(S) == { a \in Attempts : Rec(a).status \in S }

EnrolledIn(c) ==
  Cardinality({ a \in WithStatus({"Enrolled"}) : Rec(a).course_id = c })

RefusedIn(c) ==
  Cardinality({ a \in WithStatus({"Waitlisted", "Failed"}) : Rec(a).course_id = c })

EnrolledCount(regs) ==
  Cardinality({ i \in 1..Len(regs) : regs[i].status = "Enrolled" })

AllDone == \A s \in students : sess[s].pc = "done"

\* the step in which session s decides its current request
DecisionStep(s) == sess[s].pc = "db_cs" /\ sess'[s].pc = "loop"

NewRecord(s) == sess'[s].student_registrations[Len(sess'[s].student_registrations)]

\* C1: every course's remaining-seats counter starts at the course's
\* total_slots and stays within 0..total_slots in every reachable state.
C1_SlotsInRange ==
  \A c \in CourseIds :
    /\ 0 <= course_slots[c]
    /\ course_slots[c] <= courses[c].total_slots
    /\ (\A s \in students : sess[s].pc = "start")
         => course_slots[c] = courses[c].total_slots

\* a request stands at the decision of a course whose counter is already 0
C1_Witness ==
  \E s \in students :
    /\ sess[s].pc = "db_cs"
    /\ course_slots[CurrentCourse(s)] = 0
    /\ sess[s].error_chance >= Threshold4xx

\* C2: for every course the number of attempts resolved to Enrolled never
\* exceeds the course's total_slots.
C2_EnrolledWithinCapacity ==
  \A c \in CourseIds : EnrolledIn(c) <= courses[c].total_slots

\* a course is filled to its capacity and a further request was refused
C2_Witness ==
  \E c \in CourseIds :
    /\ EnrolledIn(c) = courses[c].total_slots
    /\ RefusedIn(c) > 0

\* C3: N sessions each issue one request against the single course of
\* capacity C, N > C, no error drawn: when all have completed exactly C
\* are Enrolled, exactly N - C are Waitlisted or Failed, and every session
\* has exactly one record.
C3_ExactlyOnce ==
  ( /\ Len(courses) = 1
    /\ AllDone
    /\ Cardinality(students) > courses[1].total_slots
    /\ WithStatus({"Error_4xx", "Error_5xx"}) = {} )
  => /\ EnrolledIn(1) = courses[1].total_slots
     /\ RefusedIn(1) = Cardinality(students) - courses[1].total_slots
     /\ \A s \in students : Len(sess[s].student_registrations) = 1

\* three completed sessions on the one-seat course, no error drawn
C3_Witness ==
  /\ Len(courses) = 1
  /\ AllDone
  /\ Cardinality(students) = 3
  /\ WithStatus({"Error_4xx", "Error_5xx"}) = {}
  /\ WithStatus({"Waitlisted"}) # {}
  /\ WithStatus({"Failed"}) # {}

\* C4: between a session's read of available_slots and its write, the
\* session holds the lock, no other session is between its own read and
\* write, and the ledger entry still has the value that was read.
C4_CheckAndDecrementAtomic ==
  \A s \in students :
    sess[s].pc = "db_cs" =>
      /\ lock = s
      /\ sess[s].available_slots = course_slots[CurrentCourse(s)]
      /\ \A t \in students \ {s} : sess[t].pc \notin {"db_cs", "cache_cs"}

\* one session is between read and write while another waits for the lock
\* with a request for the same course
C4_Witness ==
  \E s, t \in students :
    /\ s # t
    /\ sess[s].pc = "db_cs"
    /\ sess[t].pc = "db"
    /\ CurrentCourse(s) = CurrentCourse(t)
    /\ sess[s].available_slots = 1

\* C5: a decision that resolves to Enrolled decrements the requested
\* course's counter by exactly 1 and leaves the other counters unchanged;
\* any other decision leaves the whole ledger unchanged.
C5_LedgerEffect ==
  [][ \A s \in students :
        DecisionStep(s) =>
          IF NewRecord(s).status = "Enrolled"
          THEN course_slots' =
                 [course_slots EXCEPT ![NewRecord(s).course_id] = @ - 1]
          ELSE course_slots' = course_slots ]_vars

\* Enrolled, refused and error decisions have all been made on a catalog
\* of more than one course
C5_Witness ==
  /\ Len(courses) > 1
  /\ WithStatus({"Enrolled"}) # {}
  /\ WithStatus({"Waitlisted", "Failed"}) # {}
  /\ WithStatus({"Error_4xx", "Error_5xx"}) # {}

\* C6: no counter ever increases, and once a request for a course has
\* resolved to Waitlisted or Failed no later request for it is Enrolled.
C6_NoIncrease ==
  [][ \A c \in CourseIds :
        /\ course_slots'[c] <= course_slots[c]
        /\ RefusedIn(c) > 0 => EnrolledIn(c)' = EnrolledIn(c) ]_vars

\* two requests for one course were refused, one of them after the other
C6_Witness ==
  \E c \in CourseIds : RefusedIn(c) >= 2 /\ EnrolledIn(c) = courses[c].total_slots

\* C7: the decision is the ordered first match on the error draw and on
\* the course's remaining seats at the decision instant.
C7_FirstMatch ==
  [][ \A s \in students :
        DecisionStep(s) =>
          LET status == NewRecord(s).status
              e == sess[s].error_chance
              remaining == course_slots[CurrentCourse(s)]
          IN /\ status = "Error_5xx" <=> e < Threshold5xx
             /\ status = "Error_4xx" <=> (e >= Threshold5xx /\ e < Threshold4xx)
             /\ status = "Enrolled" <=> (e >= Threshold4xx /\ remaining > 0)
             /\ status \in {"Waitlisted", "Failed"}
                  <=> (e >= Threshold4xx /\ remaining = 0) ]_vars

\* an error outcome was decided for a course that still has seats, and a
\* request was refused
C7_Witness ==
  /\ \E a \in WithStatus({"Error_5xx", "Error_4xx"}) :
       course_slots[Rec(a).course_id] > 0
  /\ WithStatus({"Waitlisted", "Failed"}) # {}

RetryPcs == {"retry_rd", "retry_wr", "succ_rd", "succ_wr"}

\* C8: the per-request retry count stays within 0..3; the retry phase
\* changes neither the ledger nor the session's records and leaves only
\* to the seat decision, also after the third retry with a retry still
\* needed; every record's retry count is within 0..3.
C8_RetriesThenDecision ==
  [][ \A s \in students :
        /\ sess'[s].retry_count \in 0..max_retries
        /\ \A i \in 1..Len(sess'[s].student_registrations) :
             sess'[s].student_registrations[i].retry_count \in 0..max_retries
        /\ (sess[s].pc \in RetryPcs /\ sess'[s] # sess[s]) =>
             /\ sess'[s].pc \in RetryPcs \cup {"db"}
             /\ course_slots' = course_slots
             /\ sess'[s].student_registrations = sess[s].student_registrations
             /\ (sess[s].retry_count = max_retries /\ sess'[s].needs_retry)
                  => sess'[s].pc = "db" ]_vars

\* a request that used all three retries with a retry still needed was
\* decided Enrolled
C8_Witness ==
  \E s \in students :
    /\ sess[s].pc = "db_cs"
    /\ sess[s].retry_count = max_retries
    /\ sess[s].needs_retry
    /\ sess[s].available_slots > 0
    /\ sess[s].error_chance >= Threshold4xx

\* C9: every request returns exactly one record whose status is one of
\* the five outcomes, and the session goes on with its loop afterwards;
\* a session ends only when its loop is over.
C9_OneRecordPerRequest ==
  [][ \A s \in students :
        /\ DecisionStep(s) =>
             /\ Len(sess'[s].student_registrations)
                  = Len(sess[s].student_registrations) + 1
             /\ NewRecord(s).status \in Statuses
             /\ NewRecord(s).student_id = s
             /\ NewRecord(s).course_id = CurrentCourse(s)
        /\ (~DecisionStep(s)) =>
             sess'[s].student_registrations = sess[s].student_registrations
        /\ (sess[s].pc # "done" /\ sess'[s].pc = "done") =>
             \/ sess[s].idx > Len(sess[s].available_courses)
             \/ EnrolledCount(sess[s].student_registrations)
                  >= sess[s].target_courses ]_vars

\* a session made a further attempt after an error outcome
C9_Witness ==
  \E s \in students :
    \E i \in 1..Len(sess[s].student_registrations) :
      /\ sess[s].student_registrations[i].status \in {"Error_4xx", "Error_5xx"}
      /\ i < Len(sess[s].student_registrations)

\* C10: a session's list never holds more than target Enrolled records,
\* the target is within min..max, and when the list holds exactly target
\* of them its last record is Enrolled.
C10_StopsAtTarget ==
  \A s \in students :
    sess[s].pc # "start" =>
      LET regs == sess[s].student_registrations
      IN /\ sess[s].target_courses \in
              min_courses_per_student..max_courses_per_student
         /\ EnrolledCount(regs) <= sess[s].target_courses
         /\ EnrolledCount(regs) = sess[s].target_courses
              => regs[Len(regs)].status = "Enrolled"

\* a session returned at its target while it still had candidates left
C10_Witness ==
  \E s \in students :
    /\ sess[s].pc = "done"
    /\ EnrolledCount(sess[s].student_registrations) = sess[s].target_courses
    /\ sess[s].idx <= Len(sess[s].available_courses)


(* ===================== properties of the session ======================= *)
\* the courses of the Enrolled records of a list
EnrolledCourses(regs) ==
  { regs[i].course_id : i \in { k \in 1..Len(regs) : regs[k].status = "Enrolled" } }

SameSchedule(c, d) ==
  courses[c].days = courses[d].days /\ courses[c].time = courses[d].time

\* the position of a course in the session's candidate list
Pos(s, c) ==
  CHOOSE j \in 1..Len(sess[s].available_courses) : sess[s].available_courses[j] = c

\* candidate j was passed over: an earlier candidate the student is
\* Enrolled in has the same days and time
Skipped(s, j) ==
  \E c \in EnrolledCourses(sess[s].student_registrations) :
    Pos(s, c) < j /\ SameSchedule(c, sess[s].available_courses[j])

\* the candidates the loop is past and did not skip
Kept(s) == { j \in 1..(sess[s].idx - 1) : ~Skipped(s, j) }

\* C11: in one session's list no two Enrolled records are for courses
\* with the same days and the same time.
C11_NoConflictingEnrolments ==
  \A s \in students :
    \A c, d \in EnrolledCourses(sess[s].student_registrations) :
      c # d => ~SameSchedule(c, d)

\* a returned session holds two Enrolled records and passed over a
\* candidate that conflicts with one of them
C11_Witness ==
  \E s \in students :
    /\ sess[s].pc = "done"
    /\ Cardinality(EnrolledCourses(sess[s].student_registrations)) >= 2
    /\ \E j \in 1..(sess[s].idx - 1) : Skipped(s, j)

\* C12: a candidate that conflicts with a course the student is Enrolled
\* in is skipped: the session only moves to the next candidate; no record,
\* no ledger entry, no counter and not the lock changes.
C12_SkipHasNoEffect ==
  [][ \A s \in students :
        ( /\ sess[s].pc = "loop"
          /\ sess[s].idx <= Len(sess[s].available_courses)
          /\ sess[s].registered_courses < sess[s].target_courses
          /\ \E c \in EnrolledCourses(sess[s].student_registrations) :
               SameSchedule(c, CurrentCourse(s))
          /\ sess'[s] # sess[s] )
        => /\ sess'[s] = [sess[s] EXCEPT !.idx = @ + 1]
           /\ course_slots' = course_slots
           /\ counters' = counters
           /\ lock' = lock ]_vars

\* the session has just passed over a conflicting candidate
C12_Witness ==
  \E s \in students :
    /\ sess[s].pc = "loop"
    /\ sess[s].idx > 1
    /\ Skipped(s, sess[s].idx - 1)
    /\ counters.request_times = Len(sess[s].student_registrations)

\* C13: the candidates are min(2 x target, catalog size) distinct courses;
\* the list holds exactly one record for each candidate reached and not
\* skipped, in candidate order, whatever its status.
C13_OneRecordPerCandidate ==
  \A s \in students :
    sess[s].pc # "start" =>
      LET regs == sess[s].student_registrations
          cand == sess[s].available_courses
      IN /\ Len(cand) = Min(2 * sess[s].target_courses, Len(courses))
         /\ \A i, j \in 1..Len(cand) : i # j => cand[i] # cand[j]
         /\ Len(regs) = Cardinality(Kept(s))
         /\ \A i \in 1..Len(regs) :
              \E j \in Kept(s) :
                /\ Cardinality({ k \in Kept(s) : k <= j }) = i
                /\ regs[i].course_id = cand[j]
         /\ \A i, j \in 1..Len(regs) :
              i # j => regs[i].course_id # regs[j].course_id

\* a returned session whose list holds an error record followed by an
\* Enrolled record, with a candidate passed over
C13_Witness ==
  \E s \in students :
    /\ sess[s].pc = "done"
    /\ \E j \in 1..(sess[s].idx - 1) : Skipped(s, j)
    /\ \E i \in 1..Len(sess[s].student_registrations) :
         /\ sess[s].student_registrations[i].status \in {"Error_4xx", "Error_5xx"}
         /\ i < Len(sess[s].student_registrations)

\* no course has run out of seats
SeatsLeftEverywhere == \A c \in CourseIds : course_slots[c] > 0

\* C14 as stated: a session run while no course runs out of seats returns
\* with exactly target Enrolled records.
C14_Original ==
  \A s \in students :
    (sess[s].pc = "done" /\ SeatsLeftEverywhere)
      => EnrolledCount(sess[s].student_registrations) = sess[s].target_courses

\* C14 as amended: a session run while no course runs out of seats has
\* every attempt resolve to Enrolled or to an error, and returns with
\* exactly target Enrolled records unless its candidates ran out first, in
\* which case it returns with fewer.
C14_TargetOrExhausted ==
  \A s \in students :
    (sess[s].pc = "done" /\ SeatsLeftEverywhere) =>
      LET regs == sess[s].student_registrations
      IN /\ \A i \in 1..Len(regs) :
              regs[i].status \in {"Enrolled", "Error_4xx", "Error_5xx"}
         /\ \/ EnrolledCount(regs) = sess[s].target_courses
            \/ /\ EnrolledCount(regs) < sess[s].target_courses
               /\ sess[s].idx > Len(sess[s].available_courses)

\* a session returned at its target from a catalog with seats left in
\* every course, after an error outcome
C14_Witness ==
  \E s \in students :
    /\ sess[s].pc = "done"
    /\ SeatsLeftEverywhere
    /\ EnrolledCount(sess[s].student_registrations) = sess[s].target_courses
    /\ \E i \in 1..Len(sess[s].student_registrations) :
         sess[s].student_registrations[i].status \in {"Error_4xx", "Error_5xx"}

\* C15: with at least 3 courses in the catalog every returned session has
\* made at least min_courses_per_student attempts.
C15_AtLeastMinAttempts ==
  \A s \in students :
    (sess[s].pc = "done" /\ Len(courses) >= min_courses_per_student)
      => Len(sess[s].student_registrations) >= min_courses_per_student

(* ====================== properties of the driver ======================= *)
Returned == { s \in students : sess[s].pc = "done" }

Faulted == { s \in students : sess[s].pc = "raised" }

\* the records of student s among the collected registrations, in order
CollectedOf(s) == SelectSeq(registrations, LAMBDA r : r.student_id = s)

\* C16: a session's fault does not abort the run: once the driver has left
\* its collecting loop the metrics have been calculated, every session has
\* returned or faulted, the records of every session that returned are all
\* among the collected registrations, and a faulted session has none there.
C16_FaultDoesNotAbort ==
  main_pc \notin {"submit", "collect"} =>
    /\ main_pc = "finished"
    /\ Returned \cup Faulted = students
    /\ \A s \in Returned : CollectedOf(s) = sess[s].student_registrations
    /\ \A s \in Faulted : CollectedOf(s) = << >>

\* a finished run in which one session faulted after a request of its own
\* and another session returned with records
C16_Witness ==
  /\ main_pc = "finished"
  /\ \E s \in Faulted : sess[s].student_registrations # << >>
  /\ \E s \in Returned : CollectedOf(s) # << >>

\* the sessions that have been launched and have neither returned nor faulted
Executing == { s \in students : sess[s].pc \notin {"start", "done", "raised"} }

\* C17: there is one session per student, every one of them has been
\* launched by the time the run finishes, and at every point at most
\* max_workers sessions are executing.
C17_AtMostMaxWorkers ==
  /\ DOMAIN sess = students
  /\ Cardinality(Executing) <= max_workers
  /\ main_pc = "finished" => \A s \in students : sess[s].pc # "start"

\* every pool thread is executing a session while a student still waits
C17_Witness ==
  /\ Cardinality(Executing) = max_workers
  /\ \E s \in students : sess[s].pc = "start"

\* C18: the peak_concurrent_users reported after a run is the largest
\* number of sessions that were executing at one time during the run.
C18_PeakIsMaxInFlight ==
  main_pc = "finished" => peak_concurrent_users = in_flight_peak

\* C19: under fair scheduling every run terminates: eventually every
\* session has returned or faulted, the driver has taken every future, the
\* lock is free and the metrics have been calculated.
C19_RunTerminates ==
  <>( /\ main_pc = "finished"
      /\ processed = students
      /\ Returned \cup Faulted = students
      /\ lock = NoHolder )

\* a finished run of several sessions, every one a returned session that
\* went through the lock
C19_Witness ==
  /\ main_pc = "finished"
  /\ Cardinality(Returned) >= 2
  /\ \A s \in Returned : sess[s].student_registrations # << >>

\* where a session is inside a with self.lock block
LockScopes == {"cache_cs", "db_cs"}

\* where a session sleeps or waits to enter a with self.lock block
SuspensionPoints == {"loop", "cache", "retry_rd", "retry_wr", "succ_rd", "succ_wr", "db"}

\* C20: the lock is held only by a session inside one of the two lock
\* scopes, never by one at a suspension point or at an acquisition, the
\* holder's releasing step is possible whatever the other sessions do, and
\* every state of an unfinished run has a step.
C20_NoDeadlock ==
  /\ lock # NoHolder =>
       /\ lock \in students
       /\ sess[lock].pc \in LockScopes
       /\ ENABLED (CacheCount(lock) \/ DbDecide(lock))
  /\ \A s \in students : sess[s].pc \in SuspensionPoints => lock # s
  /\ main_pc # "finished" => ENABLED Next

\* a session holds the lock while another one waits to acquire it
C20_Witness ==
  /\ lock \in students
  /\ \E t \in students : t # lock /\ sess[t].pc \in {"cache", "db"}

(* ==================== properties of the aggregation =================== *)
\* the metrics have been calculated
Calculated == main_pc = "finished"

\* the positions of the collected records that satisfy P
Where(P(_)) == { i \in DOMAIN registrations : P(registrations[i]) }

\* v is the element of rank k (counted from 0) among the samples of list
IsRank(list, v, k) ==
  /\ Cardinality({ i \in DOMAIN list : list[i] < v }) <= k
  /\ k < Cardinality({ i \in DOMAIN list : list[i] <= v })

\* v is the floor(n * percent / 100)-th smallest sample, or 0 for no sample
IsPercentile(list, v, percent) ==
  IF list = << >> THEN v = 0
  ELSE IsRank(list, v, (Len(list) * percent) \div 100)

\* v is the middle sample, or the mean of the two middle samples
IsMedian(list, v) ==
  LET n == Len(list)
  IN IF n = 0 THEN v = 0
     ELSE IF n % 2 = 1 THEN IsRank(list, v, n \div 2)
     ELSE \E a, b \in { list[i] : i \in DOMAIN list } :
            /\ IsRank(list, a, n \div 2 - 1)
            /\ IsRank(list, b, n \div 2)
            /\ 2 * v = a + b

\* the calculated results are determined by which records and which
\* samples were collected, whatever their order
OrderFree ==
  Calculated =>
    LET legacy == test_results.legacy
        latency == test_results.latency
    IN /\ legacy.successful_registrations
            = Cardinality(Where(LAMBDA r : r.status = "Enrolled"))
       /\ legacy.waitlisted_registrations
            = Cardinality(Where(LAMBDA r : r.status = "Waitlisted"))
       /\ legacy.failed_registrations
            = Cardinality(Where(LAMBDA r : r.status = "Failed"))
       /\ legacy.students_with_min_courses
            = Cardinality({ s \in students :
                Cardinality(Where(LAMBDA r : r.student_id = s /\ r.status = "Enrolled"))
                  >= min_courses_per_student })
       /\ \A c \in CourseIds :
            legacy.course_utilization[c]
              = Cardinality(Where(LAMBDA r : r.course_id = c /\ r.status = "Enrolled"))
       /\ IsMedian(sample_times.request_times, latency.p50_ms)
       /\ IsPercentile(sample_times.request_times, latency.p95_ms, 95)
       /\ IsPercentile(sample_times.request_times, latency.p99_ms, 99)
       /\ IsPercentile(sample_times.atomic_op_times, latency.atomic_p95_ms, 95)
       /\ IsPercentile(sample_times.db_txn_times, latency.db_p95_ms, 95)

C22_FloorRuleEverywhere ==
  Calculated =>
    LET latency == test_results.latency
    IN /\ sample_times.request_times # << >> =>
            /\ IsPercentile(sample_times.request_times, latency.p50_ms, 50)
            /\ IsPercentile(sample_times.request_times, latency.p95_ms, 95)
            /\ IsPercentile(sample_times.request_times, latency.p99_ms, 99)
       /\ sample_times.atomic_op_times # << >> =>
            IsPercentile(sample_times.atomic_op_times, latency.atomic_p95_ms, 95)
       /\ sample_times.db_txn_times # << >> =>
            IsPercentile(sample_times.db_txn_times, latency.db_p95_ms, 95)

\* the three sample lists
SampleListsNow ==
  { sample_times.request_times, sample_times.atomic_op_times,
    sample_times.db_txn_times }

\* C30: for every non-empty sample list of length n the indices used for
\* p95 and p99 are at most n - 1, so no lookup is out of range, and the
\* percentile of an empty list is reported as 0.
C30_LookupsInRange ==
  /\ \A list \in SampleListsNow :
       list # << >> =>
         /\ PercentileIndex(Len(list), P95Percent) \in 0..(Len(list) - 1)
         /\ PercentileIndex(Len(list), P99Percent) \in 0..(Len(list) - 1)
  /\ Calculated =>
       LET latency == test_results.latency
           reported == { latency.p50_ms, latency.p95_ms, latency.p99_ms,
                         latency.atomic_p95_ms, latency.db_p95_ms }
       IN /\ IndexError \notin reported
          /\ sample_times.request_times = << >> =>
               latency.p50_ms = 0 /\ latency.p95_ms = 0 /\ latency.p99_ms = 0
          /\ sample_times.atomic_op_times = << >> => latency.atomic_p95_ms = 0
          /\ sample_times.db_txn_times = << >> => latency.db_p95_ms = 0

\* percentiles calculated from a list so long that neither index is the
\* last one
C30_Witness ==
  /\ Calculated
  /\ LET n == Len(sample_times.request_times)
     IN /\ n > 0
        /\ PercentileIndex(n, P95Percent) < n - 1
        /\ PercentileIndex(n, P99Percent) < n - 1
  /\ test_results.latency.p99_ms \in Latencies

RECURSIVE SumRetryCount(_)
\* the sum of retry_count over the records regs
SumRetryCount(regs) ==
  IF regs = << >> THEN 0
  ELSE regs[1].retry_count + SumRetryCount(Tail(regs))

\* C23: the final metrics are a reduction over the collected records: the
\* error counts, the retry total and the cache hit and miss counts behind
\* the reported rates are the corresponding counts and sum over the
\* collected records, and there is one latency sample of each kind per
\* collected record, also after a run in which a session faulted.
C23_TerminalReduction ==
  Calculated =>
    /\ test_results.rates.error_4xx_count
         = Cardinality(Where(LAMBDA r : r.status = "Error_4xx"))
    /\ test_results.rates.error_5xx_count
         = Cardinality(Where(LAMBDA r : r.status = "Error_5xx"))
    /\ test_results.rates.retry_count = SumRetryCount(registrations)
    /\ test_results.rates.cache_hit_count
         = Cardinality(Where(LAMBDA r : r.cache_hit))
    /\ test_results.rates.cache_miss_count
         = Cardinality(Where(LAMBDA r : ~r.cache_hit))
    /\ counters.request_times = Len(registrations)
    /\ counters.atomic_op_times = Len(registrations)
    /\ counters.db_txn_times = Len(registrations)

(* ====================== properties of whole runs ====================== *)
\* the run has ended and no request of it drew an error
EndedWithoutError ==
  /\ main_pc = "finished"
  /\ Faulted = {}
  /\ WithStatus({"Error_4xx", "Error_5xx"}) = {}

\* C24: one course with one seat, two students, no error drawn: whatever
\* the interleaving, the run ends with two requests of which exactly one is
\* Enrolled and the other is Waitlisted or Failed, and with no seat left.
C24_OneSeatTwoStudents ==
  ( /\ EndedWithoutError
    /\ Len(courses) = 1
    /\ courses[1].total_slots = 1
    /\ Cardinality(students) = 2 ) =>
      /\ Cardinality(Attempts) = 2
      /\ Cardinality(WithStatus({"Enrolled"})) = 1
      /\ Cardinality(WithStatus({"Waitlisted", "Failed"})) = 1
      /\ course_slots[1] = 0

\* such a run in which the two sessions were executing at the same time and
\* the loser was put on the waitlist
C24_Witness ==
  /\ EndedWithoutError
  /\ Len(courses) = 1
  /\ courses[1].total_slots = 1
  /\ Cardinality(students) = 2
  /\ in_flight_peak = 2
  /\ WithStatus({"Waitlisted"}) # {}

\* every course has capacity c, no two courses conflict, every student has
\* target t, the candidate lists cover the catalog and the demand exceeds
\* the capacity
UniformDemand(c, t) ==
  LET K == Len(courses)
      S == Cardinality(students)
  IN /\ K >= 1
     /\ \A k \in CourseIds : courses[k].total_slots = c
     /\ \A k, d \in CourseIds : k # d => ~SameSchedule(k, d)
     /\ \A s \in students : sess[s].target_courses = t
     /\ 2 * t >= K
     /\ (S - c + 1) * t > (K - 1) * c

WaitlistOutput(c) ==
  LET recs == SelectSeq(registrations,
                        LAMBDA r : r.course_id = c /\ r.status = "Waitlisted")
  IN [ i \in 1..Len(recs) |-> recs[i].student_id ]

\* the students waitlisted for course c, in the order of their decisions
WaitlistArrival(c) ==
  LET arr == SelectSeq(waitlist_arrivals, LAMBDA a : a[2] = c)
  IN [ i \in 1..Len(arr) |-> arr[i][1] ]

\* C26: for every course the Waitlisted records appear in the run's output
\* in the order in which their requests reached the seat decision.
C26_WaitlistFirstComeFirstServed ==
  (main_pc = "finished" /\ Faulted = {}) =>
    \A c \in CourseIds : WaitlistOutput(c) = WaitlistArrival(c)

(* ========================= properties of main ========================= *)
\* where main is after a failure to load the data file
LoadFailures == {"not_found", "load_error"}

\* C27: when the data file cannot be loaded the failure is fatal and
\* immediate: the construction is left with the error, nothing follows it,
\* no session is launched, the ledger has no entry, nothing is calculated
\* and no file is exported.
C27_LoadFailureIsFatal ==
  (data_file # "loadable" /\ main_pc # "construct") =>
    /\ main_pc \in LoadFailures
    /\ ~ENABLED MainNext
    /\ students = {}
    /\ in_flight_peak = 0
    /\ course_slots = << >>
    /\ registrations = << >>
    /\ test_results = NoResults
    /\ exported_files = {}

\* main has ended on a data file that is missing
C27_Witness ==
  /\ data_file = "missing"
  /\ main_pc = "not_found"

\* C28: once the data file has loaded, main runs to the end of
\* export_results without raising, for every catalog and roster, an empty
\* roster, an empty catalog and a run without a registration attempt included.
C28_RunNeverRaises ==
  data_file = "loadable" => main_pc # "export_raised"

(* ================== ledger against the collected records ================== *)
RECURSIVE SumOver(_, _)
\* the sum of f[c] over the courses 1..n
SumOver(f, n) == IF n = 0 THEN 0 ELSE f[n] + SumOver(f, n - 1)

\* C32: at the end of every run, for every course the seats taken from the
\* ledger (total_slots minus the remaining counter) are the Enrolled records
\* of that course among the collected registrations, and the per-course
\* Enrolled counts add up to the total Enrolled count, also when a session
\* faulted after enrolling.
C32_LedgerMatchesRecords ==
  Calculated =>
    /\ \A c \in CourseIds :
         courses[c].total_slots - course_slots[c]
           = Cardinality(Where(LAMBDA r : r.course_id = c /\ r.status = "Enrolled"))
    /\ SumOver(test_results.legacy.course_utilization, Len(courses))
         = test_results.legacy.successful_registrations

(* ===================== the shared retry counters ===================== *)
\* the retries counted by the requests of session s, finished or under way
RetriesOf(s) == SumRetryCount(sess[s].student_registrations) + sess[s].retry_count

\* C33: when all sessions have finished, self.retry_count is the sum of the
\* retry counts of all requests made in the run: no increment is lost under
\* any interleaving of the sessions' unlocked read-increment-write updates.
C33_NoRetryIncrementLost ==
  (\A s \in students : sess[s].pc \in {"done", "raised"}) =>
    counters.retry_count
      = SumOver([ s \in students |-> RetriesOf(s) ], Cardinality(students))

\* C34: in every reachable state successful_retries is at most retry_count,
\* so the success percentages calculated from the two (successful_retries /
\* retry_count * 100) never exceed 100, under every interleaving.
C34_SuccessesAtMostRetries ==
  /\ counters.successful_retries <= counters.retry_count
  /\ Calculated =>
       test_results.rates.successful_retries * 100
         <= 100 * test_results.rates.retry_count

(* ============== demo_load_test.py: DemoRegistrationLoadTester ============== *)
\* the demo's chance of a waitlist on a full course, in hundredths
DemoWaitlistPercent == 70

\* ThreadPoolExecutor(max_workers=10)
demo_max_workers == 10

\* random.randint(self.min_courses_per_student, self.max_courses_per_student)
DemoMinCourses == 3
DemoMaxCourses == 6

\* a course record without the key "course_code"
MissingCode == "<missing>"

DemoCourse(slots, code) == [ total_slots |-> slots, course_code |-> code ]

\* two one-seat courses
DemoCatalog == << DemoCourse(1, "CS101"), DemoCourse(1, "CS102") >>

\* two one-seat courses, the second without its course_code
DemoBrokenCatalog == << DemoCourse(1, "CS101"), DemoCourse(1, MissingCode) >>

\* the sampled catalogs and rosters the demo is run on
DemoScenarios ==
  { [catalog |-> cat, roster |-> n]
      : cat \in {DemoCatalog, DemoBrokenCatalog}, n \in 1..NumStudents }
    \cup { [catalog |-> << >>, roster |-> 1] }

\* locals of a demo session that has not started
DemoInitSession ==
  [ pc |-> "start", courses_to_try |-> << >>, idx |-> 1,
    student_registrations |-> << >>, status |-> "" ]

\* the attributes of the main tester, which the demo does not have
demoUnused == << hot_sections, counters, rand, peak_concurrent_users,
                 in_flight_peak, sample_times, test_results, waitlist_arrivals,
                 data_file, exported_files, resetVars >>

\* the demo tester after construction, at the start of run_demo_load_test
DemoInit ==
  \E sc \in DemoScenarios :
    /\ courses = sc.catalog
    /\ students = 1..sc.roster
    /\ course_slots = [c \in 1..Len(sc.catalog) |-> sc.catalog[c].total_slots]
    /\ lock = NoHolder
    /\ sess = [s \in 1..sc.roster |-> DemoInitSession]
    /\ max_workers = demo_max_workers
    /\ main_pc = "submit"
    /\ registrations = << >>
    /\ processed = {}
    /\ hot_sections = {}
    /\ counters = InitCounters
    /\ rand = Draws({}, 0, 0, 0)
    /\ peak_concurrent_users = 0
    /\ in_flight_peak = 0
    /\ sample_times = NoSamples
    /\ test_results = NoResults
    /\ waitlist_arrivals = << >>
    /\ data_file = "loadable"
    /\ exported_files = {}
    /\ ResetNotRun

demoSessionUnchanged == << demoUnused, courses, students, max_workers, main_pc,
                           registrations, processed >>

\* a pool thread takes the session from the queue and the session draws
\* its target and samples min(target, len(courses)) courses to try
DemoStartSession(s) ==
  /\ sess[s].pc = "start"
  /\ main_pc # "submit"
  /\ \A t \in students : t < s => sess[t].pc # "start"
  /\ WorkerFree(Cardinality(Running), max_workers)
  /\ \E target \in DemoMinCourses..DemoMaxCourses :
       \E sample \in Samples(Len(courses), Min(target, Len(courses))) :
         sess' = [sess EXCEPT ![s] = [@ EXCEPT !.pc = "loop",
                                                !.courses_to_try = sample]]
  /\ UNCHANGED << demoSessionUnchanged, course_slots, lock >>

\* the loop over courses_to_try is exhausted: the session returns its records
DemoSessionReturn(s) ==
  /\ sess[s].pc = "loop"
  /\ sess[s].idx > Len(sess[s].courses_to_try)
  /\ sess' = [sess EXCEPT ![s] = [@ EXCEPT !.pc = "done"]]
  /\ UNCHANGED << demoSessionUnchanged, course_slots, lock >>

\* the delay between attempts and the processing delay of the request
DemoBeginRequest(s) ==
  /\ sess[s].pc = "loop"
  /\ sess[s].idx <= Len(sess[s].courses_to_try)
  /\ sess' = [sess EXCEPT ![s] = [@ EXCEPT !.pc = "lock"]]
  /\ UNCHANGED << demoSessionUnchanged, course_slots, lock >>

\* with self.lock
DemoAcquire(s) ==
  /\ sess[s].pc = "lock"
  /\ CanAcquire(lock)
  /\ lock' = s
  /\ sess' = [sess EXCEPT ![s] = [@ EXCEPT !.pc = "cs"]]
  /\ UNCHANGED << demoSessionUnchanged, course_slots >>

\* the demo's decision: a seat if one is left, else waitlist or failure
DemoDecideStatus(available_slots, waitlist_draw) ==
  IF available_slots > 0 THEN "Enrolled"
  ELSE IF waitlist_draw < DemoWaitlistPercent THEN "Waitlisted"
  ELSE "Failed"

\* the check and the decrement under the lock, and its release
DemoDecide(s) ==
  /\ sess[s].pc = "cs"
  /\ \E waitlist_draw \in WaitlistDraws :
       LET course_id == sess[s].courses_to_try[sess[s].idx]
           status == DemoDecideStatus(course_slots[course_id], waitlist_draw)
       IN /\ course_slots' = ReserveSeat(course_slots, course_id, status)
          /\ sess' = [sess EXCEPT ![s] = [@ EXCEPT !.pc = "record",
                                                    !.status = status]]
  /\ lock' = Release(lock)
  /\ UNCHANGED demoSessionUnchanged

\* the record is built from the student's and the course's fields and
\* appended to the session's list
DemoRecord(s) ==
  /\ sess[s].pc = "record"
  /\ LET course_id == sess[s].courses_to_try[sess[s].idx]
     IN /\ courses[course_id].course_code # MissingCode
        /\ sess' = [sess EXCEPT ![s] =
                      [@ EXCEPT !.pc = "loop",
                                !.student_registrations =
                                   Append(@, [ student_id |-> s,
                                               course_id |-> course_id,
                                               course_code |->
                                                 courses[course_id].course_code,
                                               status |-> sess[s].status ]),
                                !.idx = @ + 1,
                                !.status = ""]]
  /\ UNCHANGED << demoSessionUnchanged, course_slots, lock >>

\* course["course_code"] raises KeyError: the session ends with the fault
DemoRecordRaises(s) ==
  /\ sess[s].pc = "record"
  /\ courses[sess[s].courses_to_try[sess[s].idx]].course_code = MissingCode
  /\ sess' = [sess EXCEPT ![s] = [@ EXCEPT !.pc = "raised"]]
  /\ UNCHANGED << demoSessionUnchanged, course_slots, lock >>

(* ------------------------- run_demo_load_test -------------------------- *)
demoDriverUnchanged == << demoUnused, courses, students, course_slots, lock,
                          sess, max_workers >>

\* every student's session is submitted to the pool
DemoSubmitAll ==
  /\ main_pc = "submit"
  /\ main_pc' = "collect"
  /\ UNCHANGED << demoDriverUnchanged, registrations, processed >>

\* as_completed yields a session that returned: future.result() gives its
\* records and they are collected
DemoCollect(s) ==
  /\ main_pc = "collect"
  /\ s \notin processed
  /\ sess[s].pc = "done"
  /\ registrations' = registrations \o sess[s].student_registrations
  /\ processed' = processed \cup {s}
  /\ UNCHANGED << demoDriverUnchanged, main_pc >>

\* as_completed yields a session that raised: future.result() re-raises the
\* fault in the driver, nothing catches it and the loop is left; leaving
\* the with block waits for the sessions still queued or running
DemoCollectRaises(s) ==
  /\ main_pc = "collect"
  /\ s \notin processed
  /\ sess[s].pc = "raised"
  /\ main_pc' = "shutdown"
  /\ UNCHANGED << demoDriverUnchanged, registrations, processed >>

\* the pool has shut down: the fault leaves run_demo_load_test, main prints
\* "Demo failed" and raises it again
DemoShutdown ==
  /\ main_pc = "shutdown"
  /\ \A s \in students : sess[s].pc \in {"done", "raised"}
  /\ main_pc' = "demo_failed"
  /\ UNCHANGED << demoDriverUnchanged, registrations, processed >>

\* every future has been taken: generate_demo_results prints the summary
DemoGenerateResults ==
  /\ main_pc = "collect"
  /\ processed = students
  /\ Len(registrations) > 0
  /\ main_pc' = "finished"
  /\ UNCHANGED << demoDriverUnchanged, registrations, processed >>

\* generate_demo_results divides by the number of attempts: with none it
\* raises ZeroDivisionError, which main prints and raises again
DemoGenerateRaises ==
  /\ main_pc = "collect"
  /\ processed = students
  /\ Len(registrations) = 0
  /\ main_pc' = "demo_failed"
  /\ UNCHANGED << demoDriverUnchanged, registrations, processed >>

DemoNext ==
  \/ DemoSubmitAll
  \/ DemoShutdown
  \/ DemoGenerateResults
  \/ DemoGenerateRaises
  \/ \E s \in students :
       \/ DemoStartSession(s)
       \/ DemoSessionReturn(s)
       \/ DemoBeginRequest(s)
       \/ DemoAcquire(s)
       \/ DemoDecide(s)
       \/ DemoRecord(s)
       \/ DemoRecordRaises(s)
       \/ DemoCollect(s)
       \/ DemoCollectRaises(s)

DemoSpec == DemoInit /\ [][DemoNext]_vars

\* C31: in the demo driver a session that raises an unexpected fault does
\* not abort the run: once the driver has left its collecting loop, the
\* records of every session that returned are among the collected
\* registrations and the results summary has been generated.
C31_DemoFaultDoesNotAbort ==
  (Faulted # {} /\ main_pc \notin {"submit", "collect"}) =>
    /\ main_pc = "finished"
    /\ \A s \in Returned : CollectedOf(s) = sess[s].student_registrations

(* ====== reset_registration_database.py: RegistrationDatabaseReset ====== *)
\* most rows a table holds and most jobs a queue holds before the reset
MaxRows == 1
MaxJobs == 1
\* most cache keys that match the cleared patterns before the reset
MaxKeys == 1

\* the sections table: total_seats and is_active of each section
Sections == << [ total_seats |-> 2, is_active |-> TRUE ],
               [ total_seats |-> 1, is_active |-> TRUE ],
               [ total_seats |-> 1, is_active |-> FALSE ] >>

\* the queues clear_redis_queues and verify_reset go through, in that order
Queues == << "queue:database_sync", "queue:waitlist", "queue:waitlist_entry" >>

\* what the user may type at the prompt
ConfirmAnswers == { "yes", "y", "YES", " y ", "no", "", "yes!" }

\* input(...).strip().lower() on the answers above
Normalise(answer) ==
  CASE answer = "YES" -> "yes"
    [] answer = " y " -> "y"
    [] OTHER -> answer

\* the contents of the database: the row counts of registrations and
\* waitlist and the available_seats of each section
DatabaseStates ==
  [ registrations : 0..MaxRows, waitlist : 0..MaxRows,
    available_seats :
      { a \in [ 1..Len(Sections) -> 0..2 ]
          : \A i \in 1..Len(Sections) : a[i] <= Sections[i].total_seats } ]

\* the operations list of run_complete_reset
operations == << "Clear Registrations", "Clear Waitlist",
                 "Reset Section Availability", "Clear Redis Cache",
                 "Clear Redis Queues", "Commit Changes", "Verify Reset" >>

\* the demo and the load tester are programs of their own: they are not run
testerUnused == << courses, students, course_slots, hot_sections, lock,
                   counters, rand, sess, max_workers, main_pc, registrations,
                   processed, peak_concurrent_users, in_flight_peak,
                   sample_times, test_results, waitlist_arrivals, data_file,
                   exported_files >>

\* main of the reset tool at its prompt, before any connection is made
ResetInit ==
  /\ \E answer \in ConfirmAnswers :
       reset = [ answer |-> answer, pc |-> "confirm", op_index |-> 1,
                 success |-> TRUE, result |-> "none", report |-> FALSE,
                 executed |-> << >> ]
  /\ \E tables \in DatabaseStates :
       postgres = [ before |-> tables, committed |-> tables, view |-> tables,
                    conn |-> "none" ]
  /\ \E keys \in 0..MaxKeys, jobs \in [ 1..Len(Queues) -> 0..MaxJobs ] :
       redis_store = [ cache_keys |-> keys, queues |-> jobs, conn |-> "none" ]
  /\ courses = << >>
  /\ students = {}
  /\ course_slots = << >>
  /\ hot_sections = {}
  /\ lock = NoHolder
  /\ counters = InitCounters
  /\ rand = Draws({}, 0, 0, 0)
  /\ sess = << >>
  /\ max_workers = 0
  /\ main_pc = "not_run"
  /\ registrations = << >>
  /\ processed = {}
  /\ peak_concurrent_users = 0
  /\ in_flight_peak = 0
  /\ sample_times = NoSamples
  /\ test_results = NoResults
  /\ waitlist_arrivals = << >>
  /\ data_file = "loadable"
  /\ exported_files = {}

(* --------------------------------- main --------------------------------- *)
\* main asks for confirmation: anything but yes or y cancels the reset
\* before the tool is constructed
Confirm ==
  /\ reset.pc = "confirm"
  /\ reset' = [reset EXCEPT !.pc = IF Normalise(reset.answer) \in {"yes", "y"}
                                    THEN "connect_to_database"
                                    ELSE "cancelled"]
  /\ UNCHANGED << postgres, redis_store, testerUnused >>

\* run_complete_reset returns False before its operations
ReturnFalse(r) == [r EXCEPT !.pc = "returned", !.result = "False"]

\* psycopg2.connect: the connection is made, or the failure is reported
ConnectToDatabase ==
  /\ reset.pc = "connect_to_database"
  /\ \/ /\ postgres' = [postgres EXCEPT !.conn = "open"]
        /\ reset' = [reset EXCEPT !.pc = "connect_to_redis"]
     \/ /\ reset' = ReturnFalse(reset)
        /\ UNCHANGED postgres
  /\ UNCHANGED << redis_store, testerUnused >>

\* redis.Redis and ping: the connection is made, or the failure is reported
ConnectToRedis ==
  /\ reset.pc = "connect_to_redis"
  /\ \/ /\ redis_store' = [redis_store EXCEPT !.conn = "open"]
        /\ reset' = [reset EXCEPT !.pc = "get_current_state"]
     \/ /\ reset' = ReturnFalse(reset)
        /\ UNCHANGED redis_store
  /\ UNCHANGED << postgres, testerUnused >>

\* get_current_state only reads; a database error is reported
GetCurrentState ==
  /\ reset.pc = "get_current_state"
  /\ \/ reset' = [reset EXCEPT !.pc = "operations"]
     \/ reset' = ReturnFalse(reset)
  /\ UNCHANGED << postgres, redis_store, testerUnused >>

(* --------------------------- the operations ---------------------------- *)
\* variant: the loop goes on after an operation that failed
AfterOperationNoBreak(r, ok) ==
  [r EXCEPT !.executed = Append(@, [ name |-> operations[r.op_index], ok |-> ok ]),
            !.success = @ /\ ok,
            !.op_index = @ + 1,
            !.pc = IF r.op_index = Len(operations)
                   THEN "after_loop" ELSE "operations"]

\* for operation_name, operation_func in operations: the operation has
\* returned ok; a False sets success to False and breaks the loop
AfterOperation(r, ok) ==
  [r EXCEPT !.executed = Append(@, [ name |-> operations[r.op_index], ok |-> ok ]),
            !.success = @ /\ ok,
            !.op_index = IF ok THEN @ + 1 ELSE @,
            !.pc = IF ~ok \/ r.op_index = Len(operations)
                   THEN "after_loop" ELSE "operations"]

\* the loop is at the operation of this name
AtOperation(name) ==
  /\ reset.pc = "operations"
  /\ operations[reset.op_index] = name

\* self.db_conn.rollback(): the transaction's changes are undone
Rollback(pg) == [pg EXCEPT !.view = pg.committed]

\* the sections the queries count: active with available_seats < total_seats
Incomplete(tables) ==
  { i \in 1..Len(Sections) : /\ Sections[i].is_active
                             /\ tables.available_seats[i] < Sections[i].total_seats }

\* clear_registrations: DELETE FROM registrations in the open transaction
\* and the count after it; a database error rolls the transaction back
ClearRegistrations ==
  /\ AtOperation("Clear Registrations")
  /\ \/ LET view == [postgres.view EXCEPT !.registrations = 0]
            after_count == view.registrations
        IN /\ postgres' = [postgres EXCEPT !.view = view]
           /\ reset' = AfterOperation(reset, after_count = 0)
     \/ /\ postgres' = Rollback(postgres)
        /\ reset' = AfterOperation(reset, FALSE)
  /\ UNCHANGED << redis_store, testerUnused >>

\* clear_waitlist: DELETE FROM waitlist and the count after it
ClearWaitlist ==
  /\ AtOperation("Clear Waitlist")
  /\ \/ LET view == [postgres.view EXCEPT !.waitlist = 0]
            after_count == view.waitlist
        IN /\ postgres' = [postgres EXCEPT !.view = view]
           /\ reset' = AfterOperation(reset, after_count = 0)
     \/ /\ postgres' = Rollback(postgres)
        /\ reset' = AfterOperation(reset, FALSE)
  /\ UNCHANGED << redis_store, testerUnused >>

\* reset_section_availability: nothing to do if no active section is below
\* its total; else every active section is set to its total and the
\* sections still below are counted
ResetSectionAvailability ==
  /\ AtOperation("Reset Section Availability")
  /\ \/ /\ Incomplete(postgres.view) = {}
        /\ UNCHANGED postgres
        /\ reset' = AfterOperation(reset, TRUE)
     \/ /\ Incomplete(postgres.view) # {}
        /\ LET view == [postgres.view EXCEPT !.available_seats =
                          [ i \in 1..Len(Sections) |->
                              IF Sections[i].is_active
                              THEN Sections[i].total_seats ELSE @[i] ]]
               remaining_incomplete == Cardinality(Incomplete(view))
           IN /\ postgres' = [postgres EXCEPT !.view = view]
              /\ reset' = AfterOperation(reset, remaining_incomplete = 0)
     \/ /\ postgres' = Rollback(postgres)
        /\ reset' = AfterOperation(reset, FALSE)
  /\ UNCHANGED << redis_store, testerUnused >>

\* clear_redis_cache: the keys of every pattern are deleted; a Redis error
\* part of the way is reported, the keys deleted so far stay deleted
ClearRedisCache ==
  /\ AtOperation("Clear Redis Cache")
  /\ \/ /\ redis_store' = [redis_store EXCEPT !.cache_keys = 0]
        /\ reset' = AfterOperation(reset, TRUE)
     \/ /\ \E left \in 0..redis_store.cache_keys :
             redis_store' = [redis_store EXCEPT !.cache_keys = left]
        /\ reset' = AfterOperation(reset, FALSE)
  /\ UNCHANGED << postgres, testerUnused >>

\* clear_redis_queues: every queue that holds jobs is deleted, in order; a
\* Redis error at queue k is reported, the queues before it stay cleared
ClearRedisQueues ==
  /\ AtOperation("Clear Redis Queues")
  /\ \/ /\ redis_store' = [redis_store EXCEPT !.queues =
                             [ q \in 1..Len(Queues) |-> 0 ]]
        /\ reset' = AfterOperation(reset, TRUE)
     \/ /\ \E k \in 1..Len(Queues) :
             redis_store' = [redis_store EXCEPT !.queues =
                               [ q \in 1..Len(Queues) |->
                                   IF q < k THEN 0 ELSE @[q] ]]
        /\ reset' = AfterOperation(reset, FALSE)
  /\ UNCHANGED << postgres, testerUnused >>

\* variant: the commit reports success without committing
CommitSkipped(pg) == pg

\* self.db_conn.commit(): the transaction's changes become the database's
Commit(pg) == [pg EXCEPT !.committed = pg.view]

\* commit_changes: the commit, or a rollback when the commit fails
CommitChanges ==
  /\ AtOperation("Commit Changes")
  /\ \/ /\ postgres' = Commit(postgres)
        /\ reset' = AfterOperation(reset, TRUE)
     \/ /\ postgres' = Rollback(postgres)
        /\ reset' = AfterOperation(reset, FALSE)
  /\ UNCHANGED << redis_store, testerUnused >>

RECURSIVE TotalQueueItems(_, _)
\* the sum of llen over the first n queues
TotalQueueItems(jobs, n) ==
  IF n = 0 THEN 0 ELSE jobs[n] + TotalQueueItems(jobs, n - 1)

\* verify_reset: the counts read back from the database and from Redis are
\* all zero; an error of either service is reported
VerifyReset ==
  /\ AtOperation("Verify Reset")
  /\ \/ LET reg_count == postgres.view.registrations
            waitlist_count == postgres.view.waitlist
            incomplete_sections == Cardinality(Incomplete(postgres.view))
            total_queue_items == TotalQueueItems(redis_store.queues, Len(Queues))
        IN reset' = AfterOperation(reset, /\ reg_count = 0
                                          /\ waitlist_count = 0
                                          /\ incomplete_sections = 0
                                          /\ total_queue_items = 0)
     \/ reset' = AfterOperation(reset, FALSE)
  /\ UNCHANGED << postgres, redis_store, testerUnused >>

\* after the loop: the report is generated if every operation succeeded,
\* and success is returned
FinishReset ==
  /\ reset.pc = "after_loop"
  /\ reset' = [reset EXCEPT !.pc = "returned",
                            !.report = reset.success,
                            !.result = IF reset.success THEN "True" ELSE "False"]
  /\ UNCHANGED << postgres, redis_store, testerUnused >>

\* where run_complete_reset can be when an exception leaves it
ResetRunning == { "connect_to_database", "connect_to_redis",
                  "get_current_state", "operations", "after_loop" }

\* KeyboardInterrupt or an exception no operation catches leaves
\* run_complete_reset: main logs it and returns False
ResetRaises ==
  /\ reset.pc \in ResetRunning
  /\ reset' = [reset EXCEPT !.pc = "returned", !.result = "raised"]
  /\ UNCHANGED << postgres, redis_store, testerUnused >>

\* variant: closing the connection commits the open transaction
DiscardCommits(pg) ==
  IF pg.conn = "open"
  THEN [pg EXCEPT !.conn = "closed", !.committed = pg.view]
  ELSE pg

\* self.db_conn.close(): the connection is closed and what its transaction
\* has not committed is discarded
Discard(pg) ==
  IF pg.conn = "open"
  THEN [pg EXCEPT !.conn = "closed", !.view = pg.committed]
  ELSE pg

\* main's finally: close_connections
CloseConnections ==
  /\ reset.pc = "returned"
  /\ reset' = [reset EXCEPT !.pc = "closed"]
  /\ postgres' = Discard(postgres)
  /\ redis_store' = [redis_store EXCEPT !.conn =
                       IF @ = "open" THEN "closed" ELSE @]
  /\ UNCHANGED testerUnused

ResetNext ==
  \/ Confirm
  \/ ConnectToDatabase
  \/ ConnectToRedis
  \/ GetCurrentState
  \/ ClearRegistrations
  \/ ClearWaitlist
  \/ ResetSectionAvailability
  \/ ClearRedisCache
  \/ ClearRedisQueues
  \/ CommitChanges
  \/ VerifyReset
  \/ FinishReset
  \/ ResetRaises
  \/ CloseConnections

ResetSpec == ResetInit /\ [][ResetNext]_vars

(* ------------------------ claims about the reset ------------------------ *)
\* the order of the steps as the script documents it
DocumentedOrder == << "Clear Registrations", "Clear Waitlist",
                      "Reset Section Availability", "Clear Redis Cache",
                      "Clear Redis Queues", "Commit Changes", "Verify Reset" >>

\* the steps executed so far that reported failure
FailedSteps == { i \in DOMAIN reset.executed : ~reset.executed[i].ok }

\* C35: run_complete_reset executes its steps in the documented order;
\* after the first step that reports failure no later step is executed,
\* the report is not generated and the result is False; the result is True
\* only if every step, verification included, succeeded.
C35_StepsInOrderStopAtFailure ==
  /\ Len(reset.executed) <= Len(DocumentedOrder)
  /\ \A i \in DOMAIN reset.executed : reset.executed[i].name = DocumentedOrder[i]
  /\ FailedSteps \subseteq {Len(reset.executed)}
  /\ FailedSteps # {} =>
       /\ ~reset.report
       /\ reset.result \in {"none", "False", "raised"}
       /\ (reset.pc = "closed" /\ reset.result # "raised") => reset.result = "False"
  /\ reset.result = "True" =>
       /\ Len(reset.executed) = Len(DocumentedOrder)
       /\ FailedSteps = {}
       /\ reset.report

\* a reset that stopped at a failed step after at least one step succeeded,
\* and has returned False
C35_Witness ==
  /\ reset.pc = "closed"
  /\ reset.result = "False"
  /\ FailedSteps # {}
  /\ Len(reset.executed) \in 2..(Len(DocumentedOrder) - 1)

\* the operations before verification: the five clearing steps and the commit
CommitIndex == CHOOSE i \in DOMAIN DocumentedOrder : DocumentedOrder[i] = "Commit Changes"

\* the five clearing steps and the commit have all been executed with success
ClearedAndCommitted ==
  /\ Len(reset.executed) >= CommitIndex
  /\ \A i \in 1..CommitIndex : reset.executed[i].ok

\* C36: the reset's deletions and seat updates are committed only after
\* the five clearing steps have all succeeded; if one of them or the commit
\* fails, the committed registrations, waitlist and section seats are as
\* before the reset, and stay so when main has closed the connections.
C36_CommittedOnlyAfterAllSteps ==
  /\ postgres.committed # postgres.before => ClearedAndCommitted
  /\ (\E i \in FailedSteps : i <= CommitIndex) =>
       postgres.committed = postgres.before
  /\ (reset.pc = "closed" /\ ~ClearedAndCommitted) =>
       /\ postgres.committed = postgres.before
       /\ postgres.view = postgres.before

\* a reset that deleted registrations in its transaction, then failed at a
\* later step before the commit, and has ended with the database as before
C36_Witness ==
  /\ reset.pc = "closed"
  /\ postgres.before.registrations > 0
  /\ Len(reset.executed) \in 2..CommitIndex
  /\ reset.executed[1].ok
  /\ FailedSteps # {}
  /\ postgres.committed = postgres.before

\* the answers that read yes or y, whatever their case and surrounding blanks
AffirmativeAnswers == { "yes", "y", "YES", " y " }

\* C37: whenever run_complete_reset returns True the registrations and the
\* waitlist table are empty, no active section has available_seats below
\* total_seats, the three queues are empty, and all this is committed; and
\* the destructive steps run only after the user confirmed with yes or y.
C37_TrueMeansOriginalState ==
  /\ reset.result = "True" =>
       /\ postgres.committed.registrations = 0
       /\ postgres.committed.waitlist = 0
       /\ \A i \in 1..Len(Sections) :
            Sections[i].is_active =>
              postgres.committed.available_seats[i] >= Sections[i].total_seats
       /\ \A q \in 1..Len(Queues) : redis_store.queues[q] = 0
       /\ postgres.view = postgres.committed
  /\ (reset.executed # << >> \/ postgres.conn # "none") =>
       reset.answer \in AffirmativeAnswers

\* a reset that returned True on a database that held registrations,
\* waitlist entries and a section with seats taken
C37_Witness ==
  /\ reset.result = "True"
  /\ postgres.before.registrations > 0
  /\ postgres.before.waitlist > 0
  /\ \E i \in 1..Len(Sections) :
       /\ Sections[i].is_active
       /\ postgres.before.available_seats[i] < Sections[i].total_seats

====
